---- MODULE Spec2Model ----
(***************************************************************************)
(* The DataManager persona of safe_vault (src/src/personas/data_manager.rs) *)
(* and the event loop that drives it (src/src/vault.rs), as a state        *)
(* machine of one vault node.  The routing layer, the peers and the        *)
(* clients are the environment: they deliver requests, responses and       *)
(* refresh messages, and receive what the node sends.                      *)
(*                                                                         *)
(* Sizes are in KiB, times in seconds.  Logging (logging_time, print_stats)*)
(* only writes log lines and is left out.                                  *)
(***************************************************************************)
EXTENDS Integers, Sequences, FiniteSets, TLC

VARIABLES
    chunk_store,            \* DataManager.chunk_store: DataIdentifier -> Data
    unneeded_chunks,        \* Cache.unneeded_chunks: queue of DataIdentifier
    data_holders,           \* Cache.data_holders: peer -> set of IdAndVersion
    ongoing_gets,           \* Cache.ongoing_gets: peer -> (timestamp, IdAndVersion)
    pending_writes,         \* Cache.pending_writes: DataIdentifier -> list of PendingWrite
    refresh_accumulator,    \* DataManager.refresh_accumulator: IdAndVersion -> voters
    immutable_data_count,
    structured_data_count,
    appendable_data_count,
    client_get_requests,
    routing_table,          \* the names of the peers in the node's routing table
    now,                    \* the monotonic clock read by Instant::now()
    sent,                   \* the messages the last handler handed to routing, in order
    ret,                    \* what the last handler returned: "Ok" or the error
    ev                      \* the handler that ran last and the identifier it was about

vars == <<chunk_store, unneeded_chunks, data_holders, ongoing_gets, pending_writes,
          refresh_accumulator, immutable_data_count, structured_data_count,
          appendable_data_count, client_get_requests, routing_table, now, sent,
          ret, ev>>

(***************************************************************************)
(* Bounds of the model                                                     *)
(***************************************************************************)
GROUP_SIZE == 3          \* the close-group size, scaled down
MaxVersion == 2          \* versions carried by requests are 0..MaxVersion
MaxPending == 2          \* pending writes held at one time (message ids in use)
MaxTime == 120           \* the clock stops advancing here
TickSecs == 30           \* the clock advances in steps of TickSecs
MaxClientGets == 1       \* client Gets counted
Capacity == 100          \* DataManager::new capacity (max_space of the chunk store)
MaxUsed == 110           \* used_space values given to chunk_store_full are 0..MaxUsed
MaxVotes == 3            \* refresh votes handled in a row for one (id, version)
MaxWrites == 3           \* writes pending together when the cache is driven alone

(***************************************************************************)
(* Program constants                                                       *)
(***************************************************************************)
MAX_FULL_PERCENT == 50
ACCUMULATOR_QUORUM == GROUP_SIZE \div 2 + 1
ACCUMULATOR_TIMEOUT_SECS == 180
PENDING_WRITE_TIMEOUT_SECS == 60
GET_FROM_DATA_HOLDER_TIMEOUT_SECS == 60

(***************************************************************************)
(* Generic helpers                                                         *)
(***************************************************************************)
MapPut(f, k, v) == [x \in DOMAIN f \cup {k} |-> IF x = k THEN v ELSE f[x]]
MapRemove_kept(f, k) == f
MapRemove(f, k) == [x \in DOMAIN f \ {k} |-> f[x]]
EmptyMap == [x \in {} |-> 0]
Range(s) == {s[i] : i \in DOMAIN s}

RECURSIVE SeqFilterOut(_, _)
SeqFilterOut(s, drop) ==
    IF s = <<>> THEN <<>>
    ELSE IF Head(s) \in drop THEN SeqFilterOut(Tail(s), drop)
         ELSE <<Head(s)>> \o SeqFilterOut(Tail(s), drop)

(***************************************************************************)
(* Names, identifiers and data (routing::XorName, DataIdentifier, Data)    *)
(***************************************************************************)
OurName == 0
Peers == {1, 2}
Clients == {8, 9}

DataId(kind, name) == [kind |-> kind, name |-> name]
ImmId == DataId("Immutable", 1)
SdId == DataId("Structured", 2)
AdId == DataId("PubAppendable", 3)
\* immutable chunks with names far from ours
\* the order in which a loop over all identifiers visits them
IdOrder == <<ImmId, SdId, AdId, DataId("Immutable", 3), DataId("Immutable", 7)>>

Authority(auth, name) == [auth |-> auth, name |-> name]

IdV(id, version) == [id |-> id, version |-> version]

ImmutableData(id) ==
    [id |-> id, version |-> 0, payload |-> "chunk", owner |-> "none",
     signer |-> "none", items |-> {}]
StructuredData(id, version, payload, owner, signer) ==
    [id |-> id, version |-> version, payload |-> payload, owner |-> owner,
     signer |-> signer, items |-> {}]
AppendableData(id, version, items, owner, signer) ==
    [id |-> id, version |-> version, payload |-> "none", owner |-> owner,
     signer |-> signer, items |-> items]
NoData ==
    [id |-> DataId("None", 0), version |-> 0, payload |-> "none", owner |-> "none",
     signer |-> "none", items |-> {}]

IsAppendable(id) == id.kind \in {"PubAppendable", "PrivAppendable"}

id_and_version_of(data) == IdV(data.id, data.version)

\* StructuredData::is_deleted: no data and no owners
is_deleted(sd) == sd.payload = "empty" /\ sd.owner = "none"

\* StructuredData::validate_self_against_successor, as used by replace_with_other,
\* delete_if_valid_successor and update_with_other: same identifier, the next
\* version, signed by the current owner
valid_successor(old, new) ==
    /\ new.id = old.id
    /\ new.version = old.version + 1
    /\ new.signer = old.owner

\* the datum left by StructuredData::delete_if_valid_successor
deleted_successor(old, new) ==
    [id |-> old.id, version |-> new.version, payload |-> "empty", owner |-> "none",
     signer |-> "none", items |-> {}]

\* the datum left by AppendableData::update_with_other: the appended items stay
updated_appendable(old, new) ==
    [id |-> old.id, version |-> new.version, payload |-> "none", owner |-> new.owner,
     signer |-> new.signer, items |-> old.items]

\* serialised size of a datum; the appended item 3 is a large one
Size(data) ==
    IF data.payload = "big" THEN 101
    ELSE IF data.id.kind = "Immutable" THEN 20
    ELSE 30 + 5 * Cardinality(data.items \ {3}) + (IF 3 \in data.items THEN 68 ELSE 0)

\* Data::validate_size
validate_size(data) == Size(data) <= 100

(***************************************************************************)
(* The hash of a pending write: big_endian_sip_hash of the serialised pair *)
(* (data, mutate_type), here the serialisation read as a number; the 64-bit *)
(* hash has no collisions on the data of the model.                        *)
(***************************************************************************)
KindCode(k) ==
    CASE k = "Immutable" -> 0 [] k = "Structured" -> 1
      [] k = "PubAppendable" -> 2 [] k = "PrivAppendable" -> 3 [] OTHER -> 4
TextCode(s) ==
    CASE s = "none" -> 0 [] s = "empty" -> 1 [] s = "chunk" -> 2 [] s = "a" -> 3
      [] s = "b" -> 4 [] s = "big" -> 5 [] s = "o1" -> 6 [] s = "o2" -> 7 [] OTHER -> 8
MutateCode(m) ==
    CASE m = "Append" -> 0 [] m = "Put" -> 1 [] m = "Post" -> 2 [] m = "Delete" -> 3
ItemsCode(S) ==
    (IF 1 \in S THEN 1 ELSE 0) + (IF 2 \in S THEN 2 ELSE 0) + (IF 3 \in S THEN 4 ELSE 0)

hash_of_id_and_version(data, mutate_type) ==
    ((KindCode(data.id.kind) * 8 + data.id.name) * 8 + data.version) * 4
        + MutateCode(mutate_type)
hash_of(data, mutate_type) ==
    (((((((KindCode(data.id.kind) * 8 + data.id.name) * 8 + data.version) * 9
         + TextCode(data.payload)) * 9 + TextCode(data.owner)) * 9
         + TextCode(data.signer)) * 8 + ItemsCode(data.items)) * 4
         + MutateCode(mutate_type))

(***************************************************************************)
(* ChunkStore: a keyed blob store with a hard capacity                     *)
(***************************************************************************)
RECURSIVE SumSizes(_, _)
SumSizes(cs, ids) ==
    IF ids = {} THEN 0
    ELSE LET id == CHOOSE x \in ids : TRUE
         IN Size(cs[id]) + SumSizes(cs, ids \ {id})

used_space(cs) == SumSizes(cs, DOMAIN cs)
max_space == Capacity
has(cs, id) == id \in DOMAIN cs
\* put replaces the previous value and fails when the capacity would be exceeded
put_ok(cs, id, data) == used_space(MapRemove(cs, id)) + Size(data) <= max_space
put(cs, id, data) == MapPut(cs, id, data)
delete_kept(cs, id) == cs
delete(cs, id) == MapRemove(cs, id)

\* the comparison of chunk_store_full, on the values of used_space() and max_space()
full_at(used, max) == used > (max \div 100) * MAX_FULL_PERCENT
chunk_store_full(cs) == full_at(used_space(cs), max_space)

\* pops unneeded chunks and deletes them until the store is not full any more
RECURSIVE clean_chunk_store_whole(_, _)
clean_chunk_store_whole(cs, unneeded) ==
    IF unneeded # <<>>
    THEN clean_chunk_store_whole(delete(cs, Head(unneeded)), Tail(unneeded))
    ELSE [cs |-> cs, unneeded |-> unneeded]
RECURSIVE clean_chunk_store(_, _)
clean_chunk_store(cs, unneeded) ==
    IF chunk_store_full(cs) /\ unneeded # <<>>
    THEN clean_chunk_store(delete(cs, Head(unneeded)), Tail(unneeded))
    ELSE [cs |-> cs, unneeded |-> unneeded]

(***************************************************************************)
(* Counters                                                                *)
(***************************************************************************)
Counts(imm, sd, ad) == [imm |-> imm, sd |-> sd, ad |-> ad]
count_added_data(c, id) ==
    IF id.kind = "Immutable" THEN [c EXCEPT !.imm = @ + 1]
    ELSE IF id.kind = "Structured" THEN [c EXCEPT !.sd = @ + 1]
    ELSE [c EXCEPT !.ad = @ + 1]
count_removed_data_kept(c, id) == c
count_removed_data(c, id) ==
    IF id.kind = "Immutable" THEN [c EXCEPT !.imm = @ - 1]
    ELSE IF id.kind = "Structured" THEN [c EXCEPT !.sd = @ - 1]
    ELSE [c EXCEPT !.ad = @ - 1]

\* DataManager::to_id_and_version of an id the store holds
to_id_and_version(cs, id) == IdV(id, IF id.kind = "Immutable" THEN 0 ELSE cs[id].version)
\* DataManager::get_stored_names
get_stored_names(cs, unneeded) ==
    {to_id_and_version(cs, id) : id \in DOMAIN cs \ Range(unneeded)}

(***************************************************************************)
(* Messages handed to the routing node                                     *)
(***************************************************************************)
Msg(type, to, id, msg_id, err, data, idvs, hash) ==
    [type |-> type, to |-> to, id |-> id, msg_id |-> msg_id, err |-> err,
     data |-> data, idvs |-> idvs, hash |-> hash]
NoId == DataId("None", 0)
\* send_{put,post,delete,append}_success(dst, src, data_id, message_id)
Success(mutate_type, to, id, msg_id) ==
    Msg(mutate_type \o "Success", to, id, msg_id, "", NoData, <<>>, 0)
\* send_{put,post,delete,append}_failure(dst, src, data_id, error, message_id)
send_failure(mutate_type, to, id, msg_id, err) ==
    Msg(mutate_type \o "Failure", to, id, msg_id, err, NoData, <<>>, 0)
GetSuccessMsg(to, data, msg_id) == Msg("GetSuccess", to, data.id, msg_id, "", data, <<>>, 0)
GetFailureMsg(to, id, msg_id) == Msg("GetFailure", to, id, msg_id, "NoSuchData", NoData, <<>>, 0)
GetRequestMsg(peer, id) ==
    Msg("Get", Authority("ManagedNode", peer), id, 0, "", NoData, <<>>, 0)
\* send_refresh: a RefreshDataList to a node or to the group of a name
send_refresh(to, data_list) == Msg("Refresh", to, NoId, 0, "", NoData, data_list, 0)
\* send_group_refresh: RefreshData((id, version), hash) from the group to itself
send_group_refresh(name, idv, hash, msg_id) ==
    Msg("GroupRefresh", Authority("NaeManager", name), idv.id, msg_id, "", NoData,
        <<idv>>, hash)

(***************************************************************************)
(* Cache: pending writes                                                   *)
(***************************************************************************)
PendingWrite_accepted(data, mutate_type, src, msg_id, rejected, t) ==
    [hash |-> hash_of(data, mutate_type), data |-> data, timestamp |-> t, src |-> src,
     dst |-> Authority("NaeManager", data.id.name), message_id |-> msg_id,
     mutate_type |-> mutate_type, rejected |-> FALSE]
PendingWrite(data, mutate_type, src, msg_id, rejected, t) ==
    [hash |-> hash_of(data, mutate_type), data |-> data, timestamp |-> t, src |-> src,
     dst |-> Authority("NaeManager", data.id.name), message_id |-> msg_id,
     mutate_type |-> mutate_type, rejected |-> rejected]

expired_write_sooner(w, t) == t - w.timestamp >= PENDING_WRITE_TIMEOUT_SECS
expired_write(w, t) == t - w.timestamp > PENDING_WRITE_TIMEOUT_SECS

\* writes.iter().position(|write| write.timestamp.elapsed() > timeout): 0 when none
RECURSIVE first_expired(_, _, _)
first_expired(writes, t, i) ==
    IF i > Len(writes) THEN 0
    ELSE IF expired_write(writes[i], t) THEN i
    ELSE first_expired(writes, t, i + 1)

\* the writes kept for one identifier: those before the first expired one
kept_writes(writes, t) ==
    LET index == first_expired(writes, t, 1)
    IN IF index = 0 THEN writes ELSE SubSeq(writes, 1, index - 1)
\* writes.split_off(index)
split_off_expired(writes, t) ==
    LET index == first_expired(writes, t, 1)
    IN IF index = 0 THEN <<>> ELSE SubSeq(writes, index, Len(writes))

RECURSIVE collect_expired(_, _, _)
collect_expired(pw, t, order) ==
    IF order = <<>> THEN <<>>
    ELSE (IF Head(order) \in DOMAIN pw THEN split_off_expired(pw[Head(order)], t) ELSE <<>>)
         \o collect_expired(pw, t, Tail(order))

\* Cache::remove_expired_writes: the writes left, and the expired ones returned
remove_expired_writes(pw, t) ==
    LET live == {id \in DOMAIN pw : kept_writes(pw[id], t) # <<>>}
    IN [pw |-> [id \in live |-> kept_writes(pw[id], t)],
        expired |-> collect_expired(pw, t, IdOrder)]

\* Cache::insert_pending_write: prepends the write; a RefreshData is returned when
\* the write is not rejected and every write already pending for the id is rejected
insert_refresh_always(pw, data, rejected) == ~rejected
insert_refresh(pw, data, rejected) ==
    /\ ~rejected
    /\ \A i \in DOMAIN (IF data.id \in DOMAIN pw THEN pw[data.id] ELSE <<>>) :
           pw[data.id][i].rejected
insert_pending_write(pw, data, mutate_type, src, msg_id, rejected, t) ==
    LET writes == IF data.id \in DOMAIN pw THEN pw[data.id] ELSE <<>>
    IN MapPut(pw, data.id,
              <<PendingWrite(data, mutate_type, src, msg_id, rejected, t)>> \o writes)

\* Cache::take_pending_writes
take_pending_writes_newest(pw, id) == IF id \in DOMAIN pw THEN <<Head(pw[id])>> ELSE <<>>
take_pending_writes(pw, id) == IF id \in DOMAIN pw THEN pw[id] ELSE <<>>

RECURSIVE expired_failures_accepted(_)
expired_failures_accepted(writes) ==
    IF writes = <<>> THEN <<>>
    ELSE LET w == Head(writes)
         IN (IF w.rejected THEN <<>>
             ELSE <<send_failure(w.mutate_type, w.src, w.data.id, w.message_id,
                                 "Request expired.")>>)
            \o expired_failures_accepted(Tail(writes))
RECURSIVE expired_failures(_)
expired_failures(writes) ==
    IF writes = <<>> THEN <<>>
    ELSE LET w == Head(writes)
         IN <<send_failure(w.mutate_type, w.src, w.data.id, w.message_id,
                           "Request expired.")>> \o expired_failures(Tail(writes))

\* DataManager::update_pending_writes: fails the expired writes, inserts the new
\* one and sends the group refresh that the insertion asks for
update_pending_writes(pw, data, mutate_type, src, msg_id, rejected, t) ==
    LET r == remove_expired_writes(pw, t)
    IN [pw |-> insert_pending_write(r.pw, data, mutate_type, src, msg_id, rejected, t),
        msgs |-> expired_failures(r.expired) \o
                 (IF insert_refresh(r.pw, data, rejected)
                  THEN <<send_group_refresh(data.id.name, id_and_version_of(data),
                                            hash_of(data, mutate_type), msg_id)>>
                  ELSE <<>>)]

\* the message ids of the writes that are pending
PendingMsgIds(pw) == UNION {{pw[id][i].message_id : i \in DOMAIN pw[id]} : id \in DOMAIN pw}
\* MessageId::new() of a request: an id no pending write carries
MsgIds == 1..MaxPending
FreshMsgId(pw) == CHOOSE m \in MsgIds \ PendingMsgIds(pw) : \A n \in MsgIds \ PendingMsgIds(pw) : m <= n
HasFreshMsgId(pw) == MsgIds \ PendingMsgIds(pw) # {}

(***************************************************************************)
(* Routing: XOR distance and close groups                                  *)
(***************************************************************************)
RECURSIVE Xor(_, _)
Xor(a, b) ==
    IF a = 0 /\ b = 0 THEN 0
    ELSE (((a % 2) + (b % 2)) % 2) + 2 * Xor(a \div 2, b \div 2)

RECURSIVE SortByDistance(_, _)
SortByDistance(nodes, name) ==
    IF nodes = {} THEN <<>>
    ELSE LET n == CHOOSE x \in nodes : \A y \in nodes : Xor(name, x) <= Xor(name, y)
         IN <<n>> \o SortByDistance(nodes \ {n}, name)

\* the GROUP_SIZE names closest to name among the routing table and ourselves
closest_names(rt, name) ==
    LET sorted == SortByDistance(rt \cup {OurName}, name)
    IN SubSeq(sorted, 1, IF Len(sorted) < GROUP_SIZE THEN Len(sorted) ELSE GROUP_SIZE)
\* RoutingTable::is_closest: whether we are among them
is_closest(rt, name) == OurName \in Range(closest_names(rt, name))
\* RoutingNode::close_group: the close group of name, ourselves included; the empty
\* list stands for None (we are not in the close group)
close_group_of_all(rt, name) == SortByDistance(0..7, name)
close_group(rt, name) == IF is_closest(rt, name) THEN closest_names(rt, name) ELSE <<>>
\* DataManager::close_to_address
close_to_address_always(rt, name) == TRUE
close_to_address(rt, name) == close_group(rt, name) # <<>>

(***************************************************************************)
(* Cache: data holders and ongoing Gets                                    *)
(***************************************************************************)
OngoingGet(t, idv) == [timestamp |-> t, idv |-> idv]

\* Cache::handle_get_success
cache_handle_get_success_any(og, dh, src, id, version) ==
    [og |-> MapRemove(og, src),
     dh |-> [p \in DOMAIN dh |-> dh[p] \ {IdV(id, version)}]]
cache_handle_get_success(og, dh, src, id, version) ==
    [og |-> IF src \in DOMAIN og /\ og[src].idv.id = id THEN MapRemove(og, src) ELSE og,
     dh |-> [p \in DOMAIN dh |-> dh[p] \ {IdV(id, version)}]]

\* Cache::handle_get_failure: whether src had a Get for id outstanding
cache_handle_get_failure_any(og, src, id) == src \in DOMAIN og
cache_handle_get_failure(og, src, id) == src \in DOMAIN og /\ og[src].idv.id = id

\* Cache::register_data_with_holder: whether some peer is known to hold the data
is_registered(dh, idv) == \E p \in DOMAIN dh : idv \in dh[p]
register_data_with_holder(dh, src, idv) ==
    IF is_registered(dh, idv)
    THEN MapPut(dh, src, (IF src \in DOMAIN dh THEN dh[src] ELSE {}) \cup {idv})
    ELSE dh

\* Cache::add_records
add_records(dh, idv, holders) ==
    [p \in DOMAIN dh \cup holders |->
        (IF p \in DOMAIN dh THEN dh[p] ELSE {}) \cup (IF p \in holders THEN {idv} ELSE {})]

expired_get_never(g, t) == FALSE
expired_get(g, t) == t - g.timestamp > GET_FROM_DATA_HOLDER_TIMEOUT_SECS

\* the loop of needed_data over the idle holders: the maps iterate in any order, so
\* this is the set of results the loop can have
RECURSIVE pick_candidates(_, _, _, _)
pick_candidates(idle, dh, outstanding, candidates) ==
    IF idle = {} THEN {[dh |-> dh, candidates |-> candidates]}
    ELSE UNION {
        LET free == {idv \in dh[h] : idv.id \notin outstanding}
        IN IF free = {}
           THEN pick_candidates(idle \ {h}, dh, outstanding, candidates)
           ELSE UNION { pick_candidates(idle \ {h}, [dh EXCEPT ![h] = @ \ {idv}],
                                        outstanding \cup {idv.id},
                                        Append(candidates, [holder |-> h, idv |-> idv]))
                        : idv \in free }
        : h \in idle }

\* Cache::needed_data: the possible results [dh, og, candidates]
needed_data_unaware(dh, og, t) ==
    LET dh1 == [p \in {q \in DOMAIN dh : dh[q] # {}} |-> dh[p]]
        og1 == [p \in {q \in DOMAIN og : ~expired_get(og[q], t)} |-> og[p]]
        idle == DOMAIN dh1 \ DOMAIN og1
    IN {[dh |-> r.dh, og |-> og1, candidates |-> r.candidates]
        : r \in pick_candidates(idle, dh1, {}, <<>>)}
needed_data(dh, og, t) ==
    LET dh1 == [p \in {q \in DOMAIN dh : dh[q] # {}} |-> dh[p]]
        og1 == [p \in {q \in DOMAIN og : ~expired_get(og[q], t)} |-> og[p]]
        outstanding == {og1[p].idv.id : p \in DOMAIN og1}
        idle == DOMAIN dh1 \ DOMAIN og1
    IN {[dh |-> r.dh, og |-> og1, candidates |-> r.candidates]
        : r \in pick_candidates(idle, dh1, outstanding, <<>>)}

\* the loop of send_gets_for_needed_data over the candidates
RECURSIVE issue_gets(_, _, _, _, _)
issue_gets(candidates, og, msgs, rt, t) ==
    IF candidates = <<>> THEN [og |-> og, msgs |-> msgs]
    ELSE LET c == Head(candidates)
         IN IF c.holder \in Range(close_group(rt, c.idv.id.name))
            THEN issue_gets(Tail(candidates), MapPut(og, c.holder, OngoingGet(t, c.idv)),
                            Append(msgs, GetRequestMsg(c.holder, c.idv.id)), rt, t)
            ELSE issue_gets(Tail(candidates), og, msgs, rt, t)

\* DataManager::send_gets_for_needed_data: the possible results [dh, og, msgs]
send_gets_for_needed_data(dh, og, rt, t) ==
    {LET g == issue_gets(n.candidates, n.og, <<>>, rt, t)
     IN [dh |-> n.dh, og |-> g.og, msgs |-> g.msgs]
     : n \in needed_data(dh, og, t)}

(***************************************************************************)
(* Accumulator of refresh votes (quorum ACCUMULATOR_QUORUM, entries live   *)
(* ACCUMULATOR_TIMEOUT_SECS)                                               *)
(***************************************************************************)
expired_votes(e, t) == t - e.timestamp > ACCUMULATOR_TIMEOUT_SECS
live_votes(acc, t) == [k \in {x \in DOMAIN acc : ~expired_votes(acc[x], t)} |-> acc[k]]
\* Accumulator::add: the accumulator after the vote
accumulator_add(acc, key, voter, t) ==
    LET live == live_votes(acc, t)
    IN IF key \in DOMAIN live
       THEN [live EXCEPT ![key].voters = @ \cup {voter}]
       ELSE MapPut(live, key, [voters |-> {voter}, timestamp |-> t])
\* the voters it returns once they are a quorum
accumulated_by_one(acc, key) == acc[key].voters # {}
accumulated(acc, key) == Cardinality(acc[key].voters) >= ACCUMULATOR_QUORUM
\* Accumulator::delete
accumulator_delete(acc, key) == MapRemove(acc, key)

(***************************************************************************)
(* The state after construction (DataManager::new, Cache::default)         *)
(***************************************************************************)
\* the event a handler was called for: its name, what it carried and, for a message
\* of a peer, the peer it came from
EventFrom(src, name, id, data, hash) ==
    [name |-> name, id |-> id, data |-> data, hash |-> hash, src |-> src]
Event(name, id, data, hash) == EventFrom(OurName, name, id, data, hash)

Init ==
    /\ chunk_store = EmptyMap
    /\ unneeded_chunks = <<>>
    /\ data_holders = EmptyMap
    /\ ongoing_gets = EmptyMap
    /\ pending_writes = EmptyMap
    /\ refresh_accumulator = EmptyMap
    /\ immutable_data_count = 0
    /\ structured_data_count = 0
    /\ appendable_data_count = 0
    /\ client_get_requests = 0
    /\ routing_table = Peers
    /\ now = 0
    /\ sent = <<>>
    /\ ret = "Ok"
    /\ ev = Event("Init", NoId, NoData, 0)

\* Vault::process_event runs a handler and then check_timeouts; the node is idle
\* between two events
Idle == ev.name \in {"Init", "CheckTimeouts", "AdvanceClock"}

CurCounts == Counts(immutable_data_count, structured_data_count, appendable_data_count)
SetCounts(c) ==
    /\ immutable_data_count' = c.imm
    /\ structured_data_count' = c.sd
    /\ appendable_data_count' = c.ad
Returns(event, result, msgs) ==
    /\ ev' = event
    /\ ret' = result
    /\ sent' = msgs

(***************************************************************************)
(* DataManager::handle_get                                                 *)
(***************************************************************************)
handle_get_fetching(src, data_id, message_id) ==
    /\ Idle
    /\ client_get_requests' =
           IF src.auth = "Client" THEN client_get_requests + 1 ELSE client_get_requests
    /\ IF has(chunk_store, data_id)
       THEN /\ Returns(Event("Get", data_id, NoData, 0), "Ok",
                       <<GetSuccessMsg(src, chunk_store[data_id], message_id)>>)
            /\ UNCHANGED ongoing_gets
       ELSE /\ Returns(Event("Get", data_id, NoData, 0), "Ok",
                       <<GetFailureMsg(src, data_id, message_id), GetRequestMsg(1, data_id)>>)
            /\ ongoing_gets' = MapPut(ongoing_gets, 1, OngoingGet(now, IdV(data_id, 0)))
    /\ UNCHANGED <<chunk_store, unneeded_chunks, data_holders,
                   pending_writes, refresh_accumulator, immutable_data_count,
                   structured_data_count, appendable_data_count, routing_table, now>>
handle_get(src, data_id, message_id) ==
    /\ Idle
    /\ client_get_requests' =
           IF src.auth = "Client" THEN client_get_requests + 1 ELSE client_get_requests
    /\ Returns(Event("Get", data_id, NoData, 0), "Ok",
               IF has(chunk_store, data_id)
               THEN <<GetSuccessMsg(src, chunk_store[data_id], message_id)>>
               ELSE <<GetFailureMsg(src, data_id, message_id)>>)
    /\ UNCHANGED <<chunk_store, unneeded_chunks, data_holders, ongoing_gets,
                   pending_writes, refresh_accumulator, immutable_data_count,
                   structured_data_count, appendable_data_count, routing_table, now>>

(***************************************************************************)
(* DataManager::handle_put                                                 *)
(***************************************************************************)
\* whether a Put of data on the stored chunk old is valid
put_valid_any_version(old, data) ==
    /\ old.id.kind = "Structured"
    /\ data.id.kind = "Structured"
    /\ is_deleted(old)
put_valid(old, data) ==
    /\ old.id.kind = "Structured"
    /\ data.id.kind = "Structured"
    /\ is_deleted(old)
    /\ old.version + 1 = data.version

\* an immutable chunk that is already stored is answered at once
already_stored_never(cs, data_id) == FALSE
already_stored(cs, data_id) == has(cs, data_id) /\ data_id.kind = "Immutable"

handle_put(src, data, message_id) ==
    LET data_id == data.id
    IN /\ Idle
       /\ IF already_stored(chunk_store, data_id)
          THEN /\ Returns(Event("Put", data_id, data, 0), "Ok", <<Success("Put", src, data_id, message_id)>>)
               /\ UNCHANGED <<chunk_store, unneeded_chunks, pending_writes>>
          ELSE LET valid == has(chunk_store, data_id) => put_valid(chunk_store[data_id], data)
                   cleaned == clean_chunk_store(chunk_store, unneeded_chunks)
                   is_full == chunk_store_full(cleaned.cs)
                   error == IF ~valid THEN "DataExists"
                            ELSE IF is_full THEN "NetworkFull" ELSE ""
                   failure == IF error # ""
                              THEN <<send_failure("Put", src, data_id, message_id, error)>>
                              ELSE <<>>
                   u == update_pending_writes(pending_writes, data, "Put", src, message_id,
                                              ~valid, now)
               IN /\ chunk_store' = cleaned.cs
                  /\ unneeded_chunks' = cleaned.unneeded
                  /\ IF is_full
                     THEN /\ Returns(Event("Put", data_id, data, 0), error, failure)
                          /\ UNCHANGED pending_writes
                     ELSE /\ Returns(Event("Put", data_id, data, 0), "Ok", failure \o u.msgs)
                          /\ pending_writes' = u.pw
       /\ UNCHANGED <<data_holders, ongoing_gets, refresh_accumulator, immutable_data_count,
                      structured_data_count, appendable_data_count, client_get_requests,
                      routing_table, now>>

(***************************************************************************)
(* DataManager::handle_post                                                *)
(***************************************************************************)
\* the match on (new_data, chunk_store.get(data_id)): update_result and error_opt
post_update_unchecked_signer(cs, new_data) ==
    LET data_id == new_data.id
    IN IF ~has(cs, data_id)
       THEN IF data_id.kind = "Structured"
            THEN [ok |-> TRUE, data |-> new_data, error |-> "NoSuchData"]
            ELSE [ok |-> FALSE, data |-> new_data, error |-> "NoSuchData"]
       ELSE IF data_id.kind = "Structured"
            THEN [ok |-> TRUE, data |-> new_data,
                  error |-> IF is_deleted(cs[data_id]) THEN "InvalidOperation"
                            ELSE IF cs[data_id].version + 1 # new_data.version
                                 THEN "InvalidSuccessor" ELSE ""]
       ELSE IF IsAppendable(data_id)
            THEN IF valid_successor(cs[data_id], new_data)
                 THEN [ok |-> TRUE, data |-> updated_appendable(cs[data_id], new_data),
                       error |-> ""]
                 ELSE [ok |-> FALSE, data |-> new_data, error |-> "InvalidSuccessor"]
       ELSE [ok |-> FALSE, data |-> new_data, error |-> "InvalidOperation"]
post_update(cs, new_data) ==
    LET data_id == new_data.id
    IN IF ~has(cs, data_id)
       THEN IF data_id.kind = "Structured"
            THEN [ok |-> TRUE, data |-> new_data, error |-> "NoSuchData"]
            ELSE [ok |-> FALSE, data |-> new_data, error |-> "NoSuchData"]
       ELSE IF data_id.kind = "Structured"
            THEN [ok |-> TRUE, data |-> new_data,
                  error |-> IF is_deleted(cs[data_id]) THEN "InvalidOperation"
                            ELSE IF ~valid_successor(cs[data_id], new_data)
                                 THEN "InvalidSuccessor" ELSE ""]
       ELSE IF IsAppendable(data_id)
            THEN IF valid_successor(cs[data_id], new_data)
                 THEN [ok |-> TRUE, data |-> updated_appendable(cs[data_id], new_data),
                       error |-> ""]
                 ELSE [ok |-> FALSE, data |-> new_data, error |-> "InvalidSuccessor"]
       ELSE [ok |-> FALSE, data |-> new_data, error |-> "InvalidOperation"]

handle_post(src, new_data, message_id) ==
    LET data_id == new_data.id
        r == post_update(chunk_store, new_data)
        u == update_pending_writes(pending_writes, r.data, "Post", src, message_id,
                                   r.error # "", now)
    IN /\ Idle
       /\ IF ~validate_size(new_data)
          THEN /\ Returns(Event("Post", data_id, new_data, 0), "Ok",
                          <<send_failure("Post", src, data_id, message_id, "DataTooLarge")>>)
               /\ UNCHANGED pending_writes
          ELSE IF ~r.ok
          THEN /\ Returns(Event("Post", data_id, new_data, 0), "Ok",
                          <<send_failure("Post", src, data_id, message_id, r.error)>>)
               /\ UNCHANGED pending_writes
          ELSE /\ Returns(Event("Post", data_id, new_data, 0), "Ok",
                          (IF r.error # ""
                           THEN <<send_failure("Post", src, data_id, message_id, r.error)>>
                           ELSE <<>>) \o u.msgs)
               /\ pending_writes' = u.pw
       /\ UNCHANGED <<chunk_store, unneeded_chunks, data_holders, ongoing_gets,
                      refresh_accumulator, immutable_data_count, structured_data_count,
                      appendable_data_count, client_get_requests, routing_table, now>>

(***************************************************************************)
(* DataManager::handle_delete                                              *)
(***************************************************************************)
\* error_opt of handle_delete: "" when the Delete is a valid successor
delete_error_unchecked_deleted(cs, new_data) ==
    IF ~has(cs, new_data.id) THEN "NoSuchData"
    ELSE IF new_data.id.kind # "Structured" THEN "InvalidOperation"
    ELSE IF valid_successor(cs[new_data.id], new_data) THEN ""
    ELSE "InvalidSuccessor"
delete_error(cs, new_data) ==
    IF ~has(cs, new_data.id) THEN "NoSuchData"
    ELSE IF new_data.id.kind # "Structured" THEN "InvalidOperation"
    ELSE IF is_deleted(cs[new_data.id]) THEN "InvalidOperation"
    ELSE IF valid_successor(cs[new_data.id], new_data) THEN ""
    ELSE "InvalidSuccessor"

handle_delete(src, new_data, message_id) ==
    LET data_id == new_data.id
        stored == has(chunk_store, data_id) /\ data_id.kind = "Structured"
        old == chunk_store[data_id]
        error == delete_error(chunk_store, new_data)
        data == IF error = "" THEN deleted_successor(old, new_data) ELSE old
        u == update_pending_writes(pending_writes, data, "Delete", src, message_id,
                                   error # "", now)
        failure == IF error # ""
                   THEN <<send_failure("Delete", src, data_id, message_id, error)>>
                   ELSE <<>>
    IN /\ Idle
       /\ IF stored
          THEN /\ pending_writes' = u.pw
               /\ Returns(Event("Delete", data_id, new_data, 0), "Ok", u.msgs \o failure)
          ELSE /\ UNCHANGED pending_writes
               /\ Returns(Event("Delete", data_id, new_data, 0), "Ok", failure)
       /\ UNCHANGED <<chunk_store, unneeded_chunks, data_holders, ongoing_gets,
                      refresh_accumulator, immutable_data_count, structured_data_count,
                      appendable_data_count, client_get_requests, routing_table, now>>

(***************************************************************************)
(* DataManager::handle_append                                              *)
(***************************************************************************)
\* AppendWrapper::new_pub(name, appended_data, version)
AppendWrapper(id, version, item) == [id |-> id, version |-> version, item |-> item]

\* AppendableData::apply_wrapper: the item is appended when the wrapper carries the
\* version of the stored datum
apply_wrapper(ad, wrapper) ==
    [ok |-> wrapper.version = ad.version,
     data |-> [ad EXCEPT !.items = @ \cup {wrapper.item}]]

\* the error handle_append answers with, "" when the Append is accepted
append_error_unsized(cs, wrapper) ==
    IF ~has(cs, wrapper.id) THEN "NoSuchData"
    ELSE IF ~apply_wrapper(cs[wrapper.id], wrapper).ok THEN "InvalidSuccessor"
    ELSE ""
append_error(cs, wrapper) ==
    IF ~has(cs, wrapper.id) THEN "NoSuchData"
    ELSE IF ~apply_wrapper(cs[wrapper.id], wrapper).ok THEN "InvalidSuccessor"
    ELSE IF ~validate_size(apply_wrapper(cs[wrapper.id], wrapper).data) THEN "DataTooLarge"
    ELSE ""

handle_append(src, wrapper, message_id) ==
    LET data_id == wrapper.id
        error == append_error(chunk_store, wrapper)
        data == apply_wrapper(chunk_store[data_id], wrapper).data
        u == update_pending_writes(pending_writes, data, "Append", src, message_id,
                                   FALSE, now)
    IN /\ Idle
       /\ IF error # ""
          THEN /\ Returns(Event("Append", data_id, wrapper, 0), "Ok",
                          <<send_failure("Append", src, data_id, message_id, error)>>)
               /\ UNCHANGED pending_writes
          ELSE /\ Returns(Event("Append", data_id, wrapper, 0), "Ok", u.msgs)
               /\ pending_writes' = u.pw
       /\ UNCHANGED <<chunk_store, unneeded_chunks, data_holders, ongoing_gets,
                      refresh_accumulator, immutable_data_count, structured_data_count,
                      appendable_data_count, client_get_requests, routing_table, now>>

(***************************************************************************)
(* DataManager::handle_group_refresh                                       *)
(***************************************************************************)
\* one pass of the loop over the pending writes taken for the identifier:
\* st = [cs, counts, msgs, success]
commit_write_unstored(w, st, idv, refresh_hash) ==
    IF w.hash = refresh_hash
    THEN [st EXCEPT !.msgs = Append(@, Success(w.mutate_type, w.src, idv.id, w.message_id)),
                    !.success = TRUE]
    ELSE st
commit_write(w, st, idv, refresh_hash) ==
    LET already_existed == has(st.cs, idv.id)
    IN IF w.hash = refresh_hash
       THEN IF ~put_ok(st.cs, idv.id, w.data)
            THEN [st EXCEPT !.msgs =
                     Append(@, send_failure(w.mutate_type, w.src, idv.id,
                                            w.message_id, "Failed to store chunk"))]
            ELSE [cs |-> put(st.cs, idv.id, w.data),
                  counts |-> IF w.mutate_type = "Put" /\ ~already_existed
                             THEN count_added_data(st.counts, idv.id)
                             ELSE st.counts,
                  msgs |-> st.msgs \o
                           <<Success(w.mutate_type, w.src, idv.id, w.message_id),
                             send_refresh(Authority("NaeManager", idv.id.name), <<idv>>)>>,
                  success |-> TRUE]
       ELSE IF ~w.rejected
       THEN [st EXCEPT !.msgs =
                Append(@, send_failure(w.mutate_type, w.src, w.data.id,
                                       w.message_id, "Concurrent modification."))]
       ELSE st

RECURSIVE commit_writes(_, _, _, _)
commit_writes(writes, st, idv, refresh_hash) ==
    IF writes = <<>> THEN st
    ELSE commit_writes(Tail(writes), commit_write(Head(writes), st, idv, refresh_hash),
                       idv, refresh_hash)

RECURSIVE register_group(_, _, _)
register_group(dh, group, idv) ==
    IF group = <<>> THEN dh
    ELSE register_group(register_data_with_holder(dh, Head(group), idv), Tail(group), idv)

handle_group_refresh(well_formed, idv, refresh_hash) ==
    LET st == commit_writes(take_pending_writes(pending_writes, idv.id),
                            [cs |-> chunk_store, counts |-> CurCounts, msgs |-> <<>>,
                             success |-> FALSE],
                            idv, refresh_hash)
        group == close_group(routing_table, idv.id.name)
    IN /\ Idle
       /\ IF ~well_formed
          THEN /\ Returns(Event("GroupRefresh", NoId, NoData, 0), "Serialisation", <<>>)
               /\ UNCHANGED <<chunk_store, pending_writes, data_holders, ongoing_gets,
                              immutable_data_count, structured_data_count,
                              appendable_data_count>>
          ELSE /\ chunk_store' = st.cs
               /\ SetCounts(st.counts)
               /\ pending_writes' = MapRemove(pending_writes, idv.id)
               /\ IF ~st.success /\ group # <<>>
                  THEN \E g \in send_gets_for_needed_data(
                                    register_group(data_holders, group, idv),
                                    ongoing_gets, routing_table, now) :
                           /\ data_holders' = g.dh
                           /\ ongoing_gets' = g.og
                           /\ Returns(Event("GroupRefresh", idv.id, idv, refresh_hash), "Ok", st.msgs \o g.msgs)
                  ELSE /\ Returns(Event("GroupRefresh", idv.id, idv, refresh_hash), "Ok", st.msgs)
                       /\ UNCHANGED <<data_holders, ongoing_gets>>
       /\ UNCHANGED <<unneeded_chunks, refresh_accumulator, client_get_requests,
                      routing_table, now>>

(***************************************************************************)
(* DataManager::handle_refresh                                             *)
(***************************************************************************)
data_needed_always(cs, idv) == TRUE
data_needed(cs, idv) ==
    IF ~has(cs, idv.id) THEN TRUE
    ELSE IF idv.id.kind = "Immutable" THEN FALSE
    ELSE IF idv.id.kind = "Structured" THEN cs[idv.id].version < idv.version
    ELSE cs[idv.id].version <= idv.version

\* the loop over the data list; st = [dh, acc]
RECURSIVE refresh_votes(_, _, _, _, _)
refresh_votes(data_list, st, src, cs, t) ==
    IF data_list = <<>> THEN st
    ELSE LET data_idv == Head(data_list)
             acc1 == accumulator_add(st.acc, data_idv, src, t)
             next ==
                 IF is_registered(st.dh, data_idv)
                 THEN [st EXCEPT !.dh = register_data_with_holder(@, src, data_idv)]
                 ELSE IF accumulated(acc1, data_idv)
                 THEN [dh |-> IF data_needed(cs, data_idv)
                              THEN add_records(st.dh, data_idv, acc1[data_idv].voters)
                              ELSE st.dh,
                       acc |-> accumulator_delete(acc1, data_idv)]
                 ELSE [st EXCEPT !.acc = acc1]
         IN refresh_votes(Tail(data_list), next, src, cs, t)

handle_refresh(src, well_formed, data_list) ==
    LET st == refresh_votes(data_list, [dh |-> data_holders, acc |-> refresh_accumulator],
                            src, chunk_store, now)
    IN /\ Idle
       /\ IF ~well_formed
          THEN /\ Returns(EventFrom(src, "Refresh", NoId, NoData, 0), "Serialisation", <<>>)
               /\ UNCHANGED <<data_holders, ongoing_gets, refresh_accumulator>>
          ELSE \E g \in send_gets_for_needed_data(st.dh, ongoing_gets, routing_table, now) :
                   /\ data_holders' = g.dh
                   /\ ongoing_gets' = g.og
                   /\ refresh_accumulator' = st.acc
                   /\ Returns(EventFrom(src, "Refresh", Head(data_list).id, Head(data_list), 0),
                              "Ok", g.msgs)
       /\ UNCHANGED <<chunk_store, unneeded_chunks, pending_writes, immutable_data_count,
                      structured_data_count, appendable_data_count, client_get_requests,
                      routing_table, now>>

\* the caches [dh, og, acc] that handle_refresh(src, data_list) and the check_timeouts
\* that follows it can leave
after_refresh(c, src, data_list, cs, rt, t) ==
    LET st == refresh_votes(data_list, [dh |-> c.dh, acc |-> c.acc], src, cs, t)
    IN UNION {{[dh |-> k.dh, og |-> k.og, acc |-> st.acc]
               : k \in send_gets_for_needed_data(g.dh, g.og, rt, t)}
              : g \in send_gets_for_needed_data(st.dh, c.og, rt, t)}
\* the same after the refreshes of the peers srcs, handled in this order
RECURSIVE after_refreshes(_, _, _, _, _, _)
after_refreshes(c, srcs, data_list, cs, rt, t) ==
    IF srcs = <<>> THEN {c}
    ELSE UNION {after_refreshes(c2, Tail(srcs), data_list, cs, rt, t)
                : c2 \in after_refresh(c, Head(srcs), data_list, cs, rt, t)}

(***************************************************************************)
(* DataManager::handle_get_success and handle_get_failure                  *)
(***************************************************************************)
\* what handle_get_success does with the received data once the Gets are sent:
\* [cs, unneeded, counts, ret]
store_received_unmerged(cs, unneeded, counts, rt, data) ==
    LET data_id == data.id
        same == [cs |-> cs, unneeded |-> unneeded, counts |-> counts, ret |-> "Ok"]
        stored == has(cs, data_id)
        merged == data
        got_new_data == ~stored
        cleaned == clean_chunk_store(cs, unneeded)
    IN IF ~close_to_address(rt, data_id.name) THEN same
       ELSE IF IsAppendable(data_id) /\ stored /\ cs[data_id].version > data.version THEN same
       ELSE IF data_id.kind = "Structured" /\ stored /\ cs[data_id].version >= data.version
       THEN same
       ELSE IF data_id.kind = "Immutable" /\ stored THEN same
       ELSE IF ~put_ok(cleaned.cs, data_id, merged)
       THEN [cs |-> cleaned.cs, unneeded |-> cleaned.unneeded, counts |-> counts,
             ret |-> "ChunkStore"]
       ELSE [cs |-> put(cleaned.cs, data_id, merged), unneeded |-> cleaned.unneeded,
             counts |-> IF got_new_data THEN count_added_data(counts, data_id) ELSE counts,
             ret |-> "Ok"]
store_received(cs, unneeded, counts, rt, data) ==
    LET data_id == data.id
        same == [cs |-> cs, unneeded |-> unneeded, counts |-> counts, ret |-> "Ok"]
        stored == has(cs, data_id)
        merged == IF IsAppendable(data_id) /\ stored /\ cs[data_id].version = data.version
                  THEN [data EXCEPT !.items = @ \cup cs[data_id].items]
                  ELSE data
        got_new_data == ~stored
        cleaned == clean_chunk_store(cs, unneeded)
    IN IF ~close_to_address(rt, data_id.name) THEN same
       ELSE IF IsAppendable(data_id) /\ stored /\ cs[data_id].version > data.version THEN same
       ELSE IF data_id.kind = "Structured" /\ stored /\ cs[data_id].version >= data.version
       THEN same
       ELSE IF data_id.kind = "Immutable" /\ stored THEN same
       ELSE IF ~put_ok(cleaned.cs, data_id, merged)
       THEN [cs |-> cleaned.cs, unneeded |-> cleaned.unneeded, counts |-> counts,
             ret |-> "ChunkStore"]
       ELSE [cs |-> put(cleaned.cs, data_id, merged), unneeded |-> cleaned.unneeded,
             counts |-> IF got_new_data THEN count_added_data(counts, data_id) ELSE counts,
             ret |-> "Ok"]

handle_get_success(src, data) ==
    LET c == cache_handle_get_success(ongoing_gets, data_holders, src, data.id, data.version)
        st == store_received(chunk_store, unneeded_chunks, CurCounts, routing_table, data)
    IN /\ Idle
       /\ \E g \in send_gets_for_needed_data(c.dh, c.og, routing_table, now) :
              /\ data_holders' = g.dh
              /\ ongoing_gets' = g.og
              /\ Returns(EventFrom(src, "GetSuccess", data.id, data, 0), st.ret, g.msgs)
       /\ chunk_store' = st.cs
       /\ unneeded_chunks' = st.unneeded
       /\ SetCounts(st.counts)
       /\ UNCHANGED <<pending_writes, refresh_accumulator, client_get_requests,
                      routing_table, now>>

handle_get_failure(src, data_id) ==
    /\ Idle
    /\ IF ~cache_handle_get_failure(ongoing_gets, src, data_id)
       THEN /\ Returns(EventFrom(src, "GetFailure", data_id, NoData, 0), "InvalidMessage",
                       <<>>)
            /\ UNCHANGED <<data_holders, ongoing_gets>>
       ELSE \E g \in send_gets_for_needed_data(data_holders, MapRemove(ongoing_gets, src),
                                               routing_table, now) :
                /\ data_holders' = g.dh
                /\ ongoing_gets' = g.og
                /\ Returns(EventFrom(src, "GetFailure", data_id, NoData, 0), "Ok", g.msgs)
    /\ UNCHANGED <<chunk_store, unneeded_chunks, pending_writes, refresh_accumulator,
                   immutable_data_count, structured_data_count, appendable_data_count,
                   client_get_requests, routing_table, now>>

(***************************************************************************)
(* Churn: DataManager::handle_node_added and handle_node_lost              *)
(***************************************************************************)
\* RoutingTable::other_closest_names: the other members of the close group of name;
\* some is FALSE for None (we are not in the close group)
other_closest_names_always(rt, name) ==
    [some |-> TRUE,
     names |-> SeqFilterOut(closest_names(rt, name), {OurName})]
other_closest_names(rt, name) ==
    [some |-> is_closest(rt, name),
     names |-> SeqFilterOut(closest_names(rt, name), {OurName})]

\* the test of prune_data_holders and prune_ongoing_gets: we are not close to the
\* data any more, or the holder is not
lost_holder(rt, holder, id) ==
    \/ ~other_closest_names(rt, id.name).some
    \/ holder \notin Range(other_closest_names(rt, id.name).names)

\* Cache::prune_data_holders
prune_data_holders(dh, rt) ==
    LET kept(p) == {idv \in dh[p] : ~lost_holder(rt, p, idv.id)}
    IN [p \in {q \in DOMAIN dh : kept(q) # {}} |-> kept(p)]
\* Cache::prune_ongoing_gets
prune_ongoing_gets_kept(og, rt) == og
prune_ongoing_gets(og, rt) ==
    [p \in {q \in DOMAIN og : ~lost_holder(rt, q, og[q].idv.id)} |-> og[p]]
\* Cache::prune_unneeded_chunks: the ids that are ours again
prune_unneeded_chunks_none(unneeded, rt) == {}
prune_unneeded_chunks(unneeded, rt) == {id \in Range(unneeded) : is_closest(rt, id.name)}
\* Cache::chain_records_in_cache
chain_records_in_cache(dh, og, unneeded, records_in_store) ==
    (UNION {dh[p] : p \in DOMAIN dh} \cup {og[p].idv : p \in DOMAIN og} \cup records_in_store)
        \ {IdV(id, 0) : id \in Range(unneeded)}

\* the orders in which a loop can visit the elements of a HashSet or HashMap
Orders(S) == {o \in [1..Cardinality(S) -> S] : Range(o) = S}

\* the loop of handle_node_added over the records: st = [cs, unneeded, counts, data_list]
RECURSIVE node_added_loop(_, _, _, _)
node_added_loop(data_idvs, st, rt, node_name) ==
    IF data_idvs = <<>> THEN st
    ELSE LET idv == Head(data_idvs)
             group == other_closest_names(rt, idv.id.name)
             next ==
                 IF ~group.some
                 THEN IF has(st.cs, idv.id) /\ idv.id \notin Range(st.unneeded)
                      THEN [st EXCEPT !.counts = count_removed_data(@, idv.id),
                                      !.unneeded = IF idv.id.kind = "Immutable"
                                                   THEN Append(@, idv.id) ELSE @,
                                      !.cs = IF idv.id.kind = "Immutable"
                                             THEN @ ELSE delete(@, idv.id)]
                      ELSE st
                 ELSE IF node_name \in Range(group.names)
                 THEN [st EXCEPT !.data_list = Append(@, idv)]
                 ELSE st
         IN node_added_loop(Tail(data_idvs), next, rt, node_name)

handle_node_added(node_name, rt) ==
    LET dh1 == prune_data_holders(data_holders, rt)
        og1 == prune_ongoing_gets(ongoing_gets, rt)
        stored == {to_id_and_version(chunk_store, id) : id \in DOMAIN chunk_store}
    IN /\ Idle
       /\ routing_table' = rt
       /\ \E g \in (IF og1 # ongoing_gets
                     THEN send_gets_for_needed_data(dh1, og1, rt, now)
                     ELSE {[dh |-> dh1, og |-> og1, msgs |-> <<>>]}) :
              \E order \in Orders(chain_records_in_cache(g.dh, g.og, unneeded_chunks, stored)) :
                  LET st == node_added_loop(order,
                                            [cs |-> chunk_store, unneeded |-> unneeded_chunks,
                                             counts |-> CurCounts, data_list |-> <<>>],
                                            rt, node_name)
                  IN /\ data_holders' = g.dh
                     /\ ongoing_gets' = g.og
                     /\ chunk_store' = st.cs
                     /\ unneeded_chunks' = st.unneeded
                     /\ SetCounts(st.counts)
                     /\ Returns(EventFrom(node_name, "NodeAdded", NoId, NoData, 0), "Ok",
                                g.msgs \o
                                (IF st.data_list # <<>>
                                 THEN <<send_refresh(Authority("ManagedNode", node_name),
                                                     st.data_list)>>
                                 ELSE <<>>))
       /\ UNCHANGED <<pending_writes, refresh_accumulator, client_get_requests, now>>

\* the loop of handle_node_lost over the records: data_lists maps a node to the records
\* it is sent
RECURSIVE node_lost_loop(_, _, _, _)
node_lost_loop(data_idvs, data_lists, rt, node_name) ==
    IF data_idvs = <<>> THEN data_lists
    ELSE LET idv == Head(data_idvs)
             group == other_closest_names(rt, idv.id.name)
             outer_node == group.names[GROUP_SIZE - 1]
             next ==
                 IF /\ group.some
                    /\ Len(group.names) >= GROUP_SIZE - 1
                    /\ Xor(idv.id.name, node_name) < Xor(idv.id.name, outer_node)
                 THEN MapPut(data_lists, outer_node,
                             Append(IF outer_node \in DOMAIN data_lists
                                    THEN data_lists[outer_node] ELSE <<>>, idv))
                 ELSE data_lists
         IN node_lost_loop(Tail(data_idvs), next, rt, node_name)

handle_node_lost(node_name, rt) ==
    LET pruned == prune_unneeded_chunks(unneeded_chunks, rt)
        unneeded == SeqFilterOut(unneeded_chunks, pruned)
        dh1 == prune_data_holders(data_holders, rt)
        og1 == prune_ongoing_gets(ongoing_gets, rt)
        stored == {to_id_and_version(chunk_store, id) : id \in DOMAIN chunk_store}
    IN /\ Idle
       /\ routing_table' = rt
       /\ unneeded_chunks' = unneeded
       /\ immutable_data_count' = immutable_data_count + Cardinality(pruned)
       /\ \E g \in (IF og1 # ongoing_gets
                     THEN send_gets_for_needed_data(dh1, og1, rt, now)
                     ELSE {[dh |-> dh1, og |-> og1, msgs |-> <<>>]}) :
              \E order \in Orders(chain_records_in_cache(g.dh, g.og, unneeded, stored)) :
                  LET data_lists == node_lost_loop(order, EmptyMap, rt, node_name)
                  IN \E nodes \in Orders(DOMAIN data_lists) :
                         /\ data_holders' = g.dh
                         /\ ongoing_gets' = g.og
                         /\ Returns(EventFrom(node_name, "NodeLost", NoId, NoData, 0), "Ok",
                                    g.msgs \o
                                    [i \in DOMAIN nodes |->
                                        send_refresh(Authority("ManagedNode", nodes[i]),
                                                     data_lists[nodes[i]])])
       /\ UNCHANGED <<chunk_store, pending_writes, refresh_accumulator,
                      structured_data_count, appendable_data_count, client_get_requests,
                      now>>

(***************************************************************************)
(* Vault::process_event: after every handler, DataManager::check_timeouts  *)
(***************************************************************************)
check_timeouts ==
    /\ ~Idle
    /\ \E g \in send_gets_for_needed_data(data_holders, ongoing_gets, routing_table, now) :
           /\ data_holders' = g.dh
           /\ ongoing_gets' = g.og
           /\ Returns(Event("CheckTimeouts", NoId, NoData, 0), "Ok", g.msgs)
    /\ UNCHANGED <<chunk_store, unneeded_chunks, pending_writes, refresh_accumulator,
                   immutable_data_count, structured_data_count, appendable_data_count,
                   client_get_requests, routing_table, now>>

\* an event the DataManager has no handler for (Connected, Tick, ...)
other_event ==
    /\ Idle
    /\ Returns(Event("Other", NoId, NoData, 0), "Ok", <<>>)
    /\ UNCHANGED <<chunk_store, unneeded_chunks, data_holders, ongoing_gets, pending_writes,
                   refresh_accumulator, immutable_data_count, structured_data_count,
                   appendable_data_count, client_get_requests, routing_table, now>>

\* time passes between two events
AdvanceClock ==
    /\ Idle
    /\ now + TickSecs <= MaxTime
    /\ now' = now + TickSecs
    /\ Returns(Event("AdvanceClock", NoId, NoData, 0), "Ok", <<>>)
    /\ UNCHANGED <<chunk_store, unneeded_chunks, data_holders, ongoing_gets, pending_writes,
                   refresh_accumulator, immutable_data_count, structured_data_count,
                   appendable_data_count, client_get_requests, routing_table>>

(***************************************************************************)
(* The events the environment delivers                                     *)
(***************************************************************************)
\* the RefreshData a group can accumulate for an identifier: that of a write pending
\* here, or that of a write this node does not hold (hash 0)
GroupRefreshInputs(id) ==
    {[idv |-> id_and_version_of(w.data), hash |-> w.hash]
        : w \in Range(take_pending_writes(pending_writes, id))}
    \cup {[idv |-> IdV(id, v), hash |-> 0]
          : v \in (IF id.kind = "Immutable" THEN {0} ELSE 0..MaxVersion)}

Get(srcs, ids) ==
    \E src \in srcs, id \in ids :
        /\ src.auth = "Client" => client_get_requests < MaxClientGets
        /\ handle_get(src, id, 0)

Put(srcs, inputs) ==
    \E src \in srcs, data \in inputs :
        /\ HasFreshMsgId(pending_writes)
        /\ handle_put(src, data, FreshMsgId(pending_writes))

Post(srcs, inputs) ==
    \E src \in srcs, data \in inputs :
        /\ HasFreshMsgId(pending_writes)
        /\ handle_post(src, data, FreshMsgId(pending_writes))

Delete(srcs, inputs) ==
    \E src \in srcs, data \in inputs :
        /\ HasFreshMsgId(pending_writes)
        /\ handle_delete(src, data, FreshMsgId(pending_writes))

AppendRequest(srcs, inputs) ==
    \E src \in srcs, wrapper \in inputs :
        /\ HasFreshMsgId(pending_writes)
        /\ handle_append(src, wrapper, FreshMsgId(pending_writes))

GroupRefresh(ids, forms) ==
    \E id \in ids, well_formed \in forms :
        \E r \in GroupRefreshInputs(id) : handle_group_refresh(well_formed, r.idv, r.hash)

Refresh(srcs, forms, idvs) ==
    \E src \in srcs, well_formed \in forms, idv \in idvs :
        handle_refresh(src, well_formed, <<idv>>)

GetSuccess(srcs, inputs) ==
    \E src \in srcs, data \in inputs : handle_get_success(src, data)

GetFailure(srcs, ids) ==
    \E src \in srcs, id \in ids : handle_get_failure(src, id)

\* Event::NodeAdded(node, routing_table) and Event::NodeLost(node, routing_table)
\* carry the routing table after the change
NodeAdded(nodes) ==
    \E node_name \in nodes \ routing_table :
        handle_node_added(node_name, routing_table \cup {node_name})

NodeLost(nodes) ==
    \E node_name \in nodes \cap routing_table :
        handle_node_lost(node_name, routing_table \ {node_name})

(***************************************************************************)
(* Spec: clients racing to post successors of one structured datum         *)
(***************************************************************************)
Client1 == {Authority("Client", 8)}
Manager1 == {Authority("ClientManager", 8)}
FirstSd == StructuredData(SdId, 0, "a", "o1", "o1")

Next ==
    \/ Put(Manager1, {FirstSd})
    \/ Post({Authority("Client", c) : c \in Clients},
            {StructuredData(SdId, v, p, "o1", "o1") : v \in 1..MaxVersion, p \in {"a", "b"}})
    \/ GroupRefresh({SdId}, {TRUE})
    \/ check_timeouts

Spec == Init /\ [][Next]_vars

(***************************************************************************)
(* SpecImm: two clients putting one immutable chunk, and peers sending it  *)
(***************************************************************************)

NextImm ==
    \/ Get(Client1, {ImmId})
    \/ Put({Authority("ClientManager", c) : c \in Clients}, {ImmutableData(ImmId)})
    \/ GroupRefresh({ImmId}, {TRUE})
    \/ GetSuccess(Peers, {ImmutableData(ImmId)})
    \/ check_timeouts

SpecImm == Init /\ [][NextImm]_vars

(***************************************************************************)
(* SpecPost: the Posts one client can send for a structured datum          *)
(***************************************************************************)
NextPost ==
    \/ Put(Manager1, {FirstSd})
    \/ Post(Client1, {StructuredData(SdId, v, p, "o1", s)
                         : v \in (0..MaxVersion), p \in {"a", "big"}, s \in {"o1", "o2"}}
                      \cup {AppendableData(AdId, 1, items, "o1", "o1")
                               : items \in {{}, {1, 2, 3}}})
    \/ Delete(Client1, {StructuredData(SdId, v, "a", "o1", "o1") : v \in (0..MaxVersion)})
    \/ GroupRefresh({SdId}, {TRUE})
    \/ check_timeouts

SpecPost == Init /\ [][NextPost]_vars

(***************************************************************************)
(* SpecReput: putting, deleting and putting again, next to an appendable   *)
(* datum that fills the store                                              *)
(***************************************************************************)
FirstAd == AppendableData(AdId, 0, {}, "o1", "o1")

NextReput ==
    \* the first owner creates the datum, another owner puts the versions after the
    \* tombstone
    \/ Put(Manager1, {FirstSd, FirstAd}
                      \cup {StructuredData(SdId, v, "a", "o2", "o2") : v \in 2..MaxVersion})
    \* Posts of the version that follows the tombstone
    \/ Post(Client1, {StructuredData(SdId, 2, p, "o1", "o1") : p \in {"a", "big"}})
    \* the Delete of version 0 and the Delete that follows it
    \/ Delete(Client1, {StructuredData(SdId, v, "a", "o1", "o1") : v \in {1, 2}})
    \/ GroupRefresh({SdId, AdId}, {TRUE})
    \/ check_timeouts

SpecReput == Init /\ [][NextReput]_vars

(***************************************************************************)
(* SpecTime: pending writes growing old                                    *)
(***************************************************************************)
NextTime ==
    \/ Get(Client1, {SdId})
    \/ Put(Manager1, {FirstSd})
    \/ Post(Client1, {StructuredData(SdId, 1, p, "o1", "o1") : p \in {"a", "b"}})
    \/ GroupRefresh({SdId}, {TRUE})
    \/ other_event
    \/ check_timeouts
    \/ AdvanceClock

SpecTime == Init /\ [][NextTime]_vars

(***************************************************************************)
(* SpecFetch: Gets served while data is fetched from the peers             *)
(***************************************************************************)
NextFetch ==
    \/ Get(Client1 \cup {Authority("ManagedNode", 1)}, {ImmId, SdId})
    \/ Put(Manager1, {ImmutableData(ImmId)})
    \/ GroupRefresh({ImmId}, {TRUE})
    \/ Refresh(Peers, {TRUE}, {IdV(ImmId, 0)})
    \/ GetSuccess(Peers, {ImmutableData(ImmId)})
    \/ GetFailure(Peers, {ImmId})
    \/ check_timeouts

SpecFetch == Init /\ [][NextFetch]_vars

(***************************************************************************)
(* SpecGets: two chunks announced by the peers and fetched from them       *)
(***************************************************************************)
NextGets ==
    \/ GroupRefresh({ImmId}, {FALSE})
    \/ Refresh(Peers, {TRUE, FALSE}, {IdV(ImmId, 0), IdV(SdId, 0)})
    \/ GetSuccess({1}, {ImmutableData(ImmId)})
    \/ GetFailure({2}, {SdId})
    \/ check_timeouts
    \/ AdvanceClock

SpecGets == Init /\ [][NextGets]_vars

(***************************************************************************)
(* SpecFull: chunk_store_full on the used and maximal space of a store     *)
(***************************************************************************)
InitFull ==
    /\ chunk_store = EmptyMap
    /\ unneeded_chunks = <<>>
    /\ data_holders = EmptyMap
    /\ ongoing_gets = EmptyMap
    /\ pending_writes = EmptyMap
    /\ refresh_accumulator = EmptyMap
    /\ immutable_data_count = 0
    /\ structured_data_count = 0
    /\ appendable_data_count = 0
    /\ client_get_requests = 0
    /\ routing_table = Peers
    /\ now = 0
    /\ sent = <<>>
    /\ ret = "Ok"
    \* capacities below, at and between the multiples of 100
    /\ \E used \in 0..MaxUsed, max \in {0, 99, 100, 199, 200} :
           ev = Event("Store", NoId, [used |-> used, max |-> max], 0)

\* a call of chunk_store_full on a store with these used_space() and max_space()
ChunkStoreFull ==
    /\ ev.name = "Store"
    /\ ev' = [ev EXCEPT !.name = "ChunkStoreFull"]
    /\ ret' = IF full_at(ev.data.used, ev.data.max) THEN "full" ELSE "not full"
    /\ UNCHANGED <<chunk_store, unneeded_chunks, data_holders, ongoing_gets, pending_writes,
                   refresh_accumulator, immutable_data_count, structured_data_count,
                   appendable_data_count, client_get_requests, routing_table, now, sent>>

SpecFull == InitFull /\ [][ChunkStoreFull]_vars

(***************************************************************************)
(* SpecChurn: chunks put while a node closer to them joins and leaves      *)
(***************************************************************************)
NextChurn ==
    \/ Put(Manager1, {ImmutableData(DataId("Immutable", n)) : n \in {1, 3, 7}} \cup {FirstSd})
    \/ GroupRefresh({DataId("Immutable", n) : n \in {1, 3, 7}} \cup {SdId}, {TRUE})
    \/ GetSuccess({1}, {ImmutableData(DataId("Immutable", 3))})
    \/ NodeAdded({3})
    \/ NodeLost({3})
    \/ check_timeouts

SpecChurn == Init /\ [][NextChurn]_vars

(***************************************************************************)
(* SpecVersion: a structured datum written by clients and fetched from a   *)
(* peer                                                                    *)
(***************************************************************************)
NextVersion ==
    \/ Put(Manager1, {FirstSd})
    \/ Post(Client1, {StructuredData(SdId, v, "a", "o1", "o1") : v \in 1..MaxVersion})
    \/ Delete(Client1, {StructuredData(SdId, v, "a", "o1", "o1") : v \in 1..MaxVersion})
    \/ GetSuccess({1}, {StructuredData(SdId, v, "a", "o1", "o1") : v \in 1..MaxVersion})
    \/ GroupRefresh({SdId}, {TRUE})
    \/ check_timeouts

SpecVersion == Init /\ [][NextVersion]_vars

(***************************************************************************)
(* SpecAppend: items appended to an appendable datum, one of them close to *)
(* the size limit, next to an immutable chunk                              *)
(***************************************************************************)
\* AppendableData(AdId, 0, {3}, ...) is a datum that one more item makes too large
NextAppend ==
    \/ Put(Manager1, {FirstAd, AppendableData(AdId, 0, {3}, "o1", "o1"), ImmutableData(ImmId)})
    \/ AppendRequest(Client1, {AppendWrapper(AdId, v, i) : v \in {0, 1}, i \in {1, 2}})
    \/ GroupRefresh({AdId, ImmId}, {TRUE})
    \/ GetSuccess({1}, {AppendableData(AdId, 0, {2}, "o1", "o1"),
                        AppendableData(AdId, 0, {3}, "o1", "o1")})
    \/ check_timeouts

SpecAppend == Init /\ [][NextAppend]_vars

(***************************************************************************)
(* SpecNeeded: peers announcing versions below, at and above the stored    *)
(* ones                                                                    *)
(***************************************************************************)
NextNeeded ==
    \/ GetSuccess({1}, {ImmutableData(ImmId), StructuredData(SdId, 1, "a", "o1", "o1"),
                        AppendableData(AdId, 1, {}, "o1", "o1")})
    \/ Refresh(Peers, {TRUE}, {IdV(ImmId, 0), IdV(SdId, 1), IdV(SdId, 2), IdV(AdId, 1)})
    \/ check_timeouts

SpecNeeded == Init /\ [][NextNeeded]_vars

(***************************************************************************)
(* SpecStore: data of every kind received from a peer, in several versions, *)
(* while a node closer to some of it joins and leaves                      *)
(***************************************************************************)
NextStore ==
    \/ GetSuccess({1}, {ImmutableData(DataId("Immutable", 3)), FirstSd,
                        StructuredData(SdId, 1, "a", "o1", "o1"),
                        AppendableData(AdId, 0, {1}, "o1", "o1"),
                        AppendableData(AdId, 1, {2}, "o1", "o1"),
                        AppendableData(AdId, 0, {3}, "o1", "o1")})
    \/ NodeAdded({3})
    \/ NodeLost({3})
    \/ check_timeouts

SpecStore == Init /\ [][NextStore]_vars

(***************************************************************************)
(* SpecNodes: chunks of every kind stored and asked for while nodes join   *)
(* and leave                                                               *)
(***************************************************************************)
NextNodes ==
    \/ GetSuccess({1}, {ImmutableData(DataId("Immutable", 7)), FirstSd,
                        AppendableData(AdId, 0, {1}, "o1", "o1")})
    \/ Refresh(Peers, {TRUE}, {IdV(ImmId, 0)})
    \/ NodeAdded({3, 4})
    \/ NodeLost({2, 3, 4})
    \/ check_timeouts

SpecNodes == Init /\ [][NextNodes]_vars

(***************************************************************************)
(* SpecRetry: two chunks with different close groups, announced by three   *)
(* peers, whose Gets fail or grow old                                      *)
(***************************************************************************)
NextRetry ==
    \/ NodeAdded({3})
    \/ Refresh({1, 3}, {TRUE}, {IdV(ImmId, 0)})
    \/ Refresh({2, 3}, {TRUE}, {IdV(SdId, 0)})
    \/ GetFailure({1}, {ImmId})
    \/ check_timeouts
    \/ AdvanceClock

SpecRetry == Init /\ [][NextRetry]_vars

(***************************************************************************)
(* SpecCount: an appendable datum posted to while two nodes closer to it   *)
(* join                                                                    *)
(***************************************************************************)
NextCount ==
    \/ GetSuccess({1}, {AppendableData(AdId, 0, {1}, "o1", "o1")})
    \/ Post(Client1, {AppendableData(AdId, 1, {}, "o1", "o1")})
    \/ GroupRefresh({AdId}, {TRUE})
    \/ NodeAdded({3, 4})
    \/ check_timeouts

SpecCount == Init /\ [][NextCount]_vars

(***************************************************************************)
(* SpecCache: the pending writes of the cache driven on their own:         *)
(* insert_pending_write, remove_expired_writes and take_pending_writes     *)
(* called while time passes                                                *)
(***************************************************************************)
NextCache ==
    /\ \/ \E data \in {FirstSd, ImmutableData(ImmId)}, rejected \in {FALSE} :
              \E msg_id \in (1..MaxWrites) \ PendingMsgIds(pending_writes) :
                  /\ pending_writes' = insert_pending_write(pending_writes, data, "Put",
                                                            Authority("ClientManager", 8),
                                                            msg_id, rejected, now)
                  /\ Returns(Event("insert_pending_write", data.id, NoData, 0), "Ok", <<>>)
                  /\ UNCHANGED now
       \/ /\ pending_writes' = remove_expired_writes(pending_writes, now).pw
          /\ Returns(Event("remove_expired_writes", NoId,
                           remove_expired_writes(pending_writes, now).expired, 0),
                     "Ok", <<>>)
          /\ UNCHANGED now
       \/ \E id \in {SdId, ImmId} :
              /\ pending_writes' = MapRemove(pending_writes, id)
              /\ Returns(Event("take_pending_writes", id,
                               take_pending_writes(pending_writes, id), 0), "Ok", <<>>)
              /\ UNCHANGED now
       \/ /\ now + TickSecs <= MaxTime
          /\ now' = now + TickSecs
          /\ Returns(Event("AdvanceClock", NoId, NoData, 0), "Ok", <<>>)
          /\ UNCHANGED pending_writes
    /\ UNCHANGED <<chunk_store, unneeded_chunks, data_holders, ongoing_gets,
                   refresh_accumulator, immutable_data_count, structured_data_count,
                   appendable_data_count, client_get_requests, routing_table>>

SpecCache == Init /\ [][NextCache]_vars

(***************************************************************************)
(* SpecVotes: the refresh votes of some peers for one chunk the node lacks, *)
(* handled one after the other with nothing in between                     *)
(***************************************************************************)
\* the orders, with repetitions, in which peers can vote
VoteSeqs == UNION {[1..n -> {1, 2, 3}] : n \in 1..MaxVotes}

InitVotes ==
    /\ chunk_store = EmptyMap
    /\ unneeded_chunks = <<>>
    /\ data_holders = EmptyMap
    /\ ongoing_gets = EmptyMap
    /\ pending_writes = EmptyMap
    /\ refresh_accumulator = EmptyMap
    /\ immutable_data_count = 0
    /\ structured_data_count = 0
    /\ appendable_data_count = 0
    /\ client_get_requests = 0
    /\ routing_table \in {Peers, Peers \cup {3}}
    /\ now = 0
    /\ sent = <<>>
    /\ ret = "Ok"
    /\ \E votes \in VoteSeqs : ev = Event("Votes", ImmId, votes, 0)

\* the Refresh events of the voters, each followed by check_timeouts
HandleVotes ==
    /\ ev.name = "Votes"
    /\ \E c \in after_refreshes([dh |-> data_holders, og |-> ongoing_gets,
                                 acc |-> refresh_accumulator],
                                ev.data, <<IdV(ev.id, 0)>>, chunk_store, routing_table, now) :
           /\ data_holders' = c.dh
           /\ ongoing_gets' = c.og
           /\ refresh_accumulator' = c.acc
    /\ ev' = [ev EXCEPT !.name = "Refreshes"]
    /\ UNCHANGED <<chunk_store, unneeded_chunks, pending_writes, immutable_data_count,
                   structured_data_count, appendable_data_count, client_get_requests,
                   routing_table, now, sent, ret>>

SpecVotes == InitVotes /\ [][HandleVotes]_vars

(***************************************************************************)
(* Properties                                                              *)
(***************************************************************************)
\* the reply of the given type that answers the pending write w, if msgs has one
Answered(msgs, w, type) ==
    \E k \in DOMAIN msgs :
        /\ msgs[k].type = type
        /\ msgs[k].msg_id = w.message_id
        /\ msgs[k].to = w.src
AnsweredWith(msgs, w, type, err) ==
    \E k \in DOMAIN msgs :
        /\ msgs[k].type = type
        /\ msgs[k].msg_id = w.message_id
        /\ msgs[k].to = w.src
        /\ msgs[k].err = err
Succeeded(msgs, w) == Answered(msgs, w, w.mutate_type \o "Success")

\* C1: of the Posts that are pending together for one identifier and carry different
\* data, no step answers two with PostSuccess; and when one of them is answered
\* with PostSuccess, every other one that was accepted (not rejected) is answered
\* with PostFailure in the same step.
C1_Step ==
    \A id \in DOMAIN pending_writes :
        \A i, j \in DOMAIN pending_writes[id] :
            LET wi == pending_writes[id][i]
                wj == pending_writes[id][j]
            IN (/\ i # j
                /\ wi.mutate_type = "Post"
                /\ wj.mutate_type = "Post"
                /\ wi.data # wj.data)
               => /\ ~(Succeeded(sent', wi) /\ Succeeded(sent', wj))
                  /\ (Succeeded(sent', wi) /\ ~wj.rejected)
                         => AnsweredWith(sent', wj, "PostFailure", "Concurrent modification.")
C1_OneConcurrentPostSucceeds == [][C1_Step]_vars

\* C1 witness: a group refresh has answered one client with PostSuccess and another
\* client with PostFailure
C1_Witness ==
    /\ ev.name = "GroupRefresh"
    /\ \E i, j \in DOMAIN sent :
           /\ sent[i].type = "PostSuccess"
           /\ sent[j].type = "PostFailure"
           /\ sent[j].err = "Concurrent modification."
           /\ sent[i].to # sent[j].to

\* C2: whenever a step sends the success reply of a pending write, the chunk store
\* holds exactly the data of that write after the step.
C2_Step ==
    \A id \in DOMAIN pending_writes :
        \A i \in DOMAIN pending_writes[id] :
            LET w == pending_writes[id][i]
            IN Succeeded(sent', w) => /\ has(chunk_store', id)
                                      /\ chunk_store'[id] = w.data
C2_SuccessMeansStored == [][C2_Step]_vars

\* C2 witness: two Posts of version 1 were pending, one was answered with
\* PostSuccess, and the store holds version 1
C2_Witness ==
    /\ ev.name = "GroupRefresh"
    /\ \E i, j \in DOMAIN sent :
           /\ sent[i].type = "PostSuccess"
           /\ sent[j].type = "PostFailure"
    /\ has(chunk_store, SdId)
    /\ chunk_store[SdId].version = 1

\* every pending write
AllWrites(pw) == UNION {Range(pw[id]) : id \in DOMAIN pw}
\* msgs holds a reply of the given type and error to the request being handled,
\* whose message id no write pending in pw carries
Reply(msgs, pw, type, id, err) ==
    \E k \in DOMAIN msgs :
        /\ msgs[k].type = type
        /\ msgs[k].id = id
        /\ msgs[k].err = err
        /\ msgs[k].msg_id \notin PendingMsgIds(pw)
\* msgs holds a failure of the given type to the request being handled
Refused(msgs, pw, type) ==
    \E k \in DOMAIN msgs :
        /\ msgs[k].type = type
        /\ msgs[k].msg_id \notin PendingMsgIds(pw)
\* the step from pw to pw2 has put a write of data at the head of the ledger
NewWrite(pw, pw2, data, mutate_type, rejected) ==
    /\ data.id \in DOMAIN pw2
    /\ Head(pw2[data.id]).data = data
    /\ Head(pw2[data.id]).mutate_type = mutate_type
    /\ Head(pw2[data.id]).rejected = rejected
    /\ Head(pw2[data.id]).message_id \notin PendingMsgIds(pw)
StoredTombstone(id) ==
    /\ id.kind = "Structured"
    /\ has(chunk_store, id)
    /\ chunk_store[id].payload = "empty"
    /\ chunk_store[id].owner = "none"

\* C3: a Put of an immutable chunk that the store already holds is answered with
\* PutSuccess alone and changes neither the pending writes, the store nor the
\* counters; when a commit answers one pending Put of a chunk with PutSuccess it
\* answers every pending Put of the same chunk with PutSuccess; and the immutable
\* counter always equals the number of immutable chunks stored (each counted once).
C3_Step ==
    /\ (ev'.name = "Put" /\ ev'.id.kind = "Immutable" /\ has(chunk_store, ev'.id))
           => /\ Len(sent') = 1
              /\ sent'[1].type = "PutSuccess"
              /\ sent'[1].id = ev'.id
              /\ pending_writes' = pending_writes
              /\ chunk_store' = chunk_store
              /\ immutable_data_count' = immutable_data_count
    /\ (ev'.name = "GroupRefresh" /\ ev'.id.kind = "Immutable")
           => \A w, x \in Range(take_pending_writes(pending_writes, ev'.id)) :
                  (w.mutate_type = "Put" /\ x.mutate_type = "Put" /\ w.data = x.data
                   /\ Succeeded(sent', w)) => Succeeded(sent', x)
    /\ immutable_data_count' =
           Cardinality({id \in DOMAIN chunk_store' : id.kind = "Immutable"})
C3_ImmutablePutIdempotent == [][C3_Step]_vars

\* C3 witness: a Put of a stored immutable chunk has been answered with PutSuccess
\* and the chunk is counted once
C3_Witness ==
    /\ ev.name = "Put"
    /\ Len(sent) = 1
    /\ sent[1].type = "PutSuccess"
    /\ has(chunk_store, ImmId)
    /\ immutable_data_count = 1

\* C4: no step replaces a stored structured chunk by a different one unless the
\* version grows.
C4_Step ==
    \A id \in DOMAIN chunk_store \cap DOMAIN chunk_store' :
        (id.kind = "Structured" /\ chunk_store'[id] # chunk_store[id])
            => chunk_store'[id].version > chunk_store[id].version
C4_StoredVersionOnlyIncreases == [][C4_Step]_vars

\* C5: once an event has been processed (its handler and then check_timeouts), no
\* pending write is older than 60 s.
C5_ExpiredAbsentAfterEvent ==
    ev.name = "CheckTimeouts"
        => \A w \in AllWrites(pending_writes) : now - w.timestamp <= 60

\* C6: a pending write that leaves the ledger in a step other than a group refresh
\* is older than 60 s, and the step sends the failure of the write's own kind with
\* "Request expired." to the authority the write came from.
C6_Step ==
    ev'.name # "GroupRefresh"
        => \A w \in AllWrites(pending_writes) \ AllWrites(pending_writes') :
               /\ now - w.timestamp > 60
               /\ AnsweredWith(sent', w, w.mutate_type \o "Failure", "Request expired.")
C6_ExpiredWritesFail == [][C6_Step]_vars

\* C6 witness: a mutation has failed an expired Post with "Request expired."
C6_Witness ==
    /\ ev.name \in {"Put", "Post"}
    /\ \E k \in DOMAIN sent :
           /\ sent[k].type = "PostFailure"
           /\ sent[k].err = "Request expired."
           /\ sent[k].to \in Client1

\* C7 as claimed: a Put on a stored structured or appendable id is refused with
\* DataExists unless the stored chunk is a deleted structured datum and the new
\* version is the stored version + 1, and the refused write is still inserted as a
\* rejected pending write.
C7_OriginalStep ==
    (ev'.name = "Put" /\ ev'.id.kind # "Immutable" /\ has(chunk_store, ev'.id))
        => LET old == chunk_store[ev'.id]
               ok == StoredTombstone(ev'.id) /\ ev'.data.version = old.version + 1
           IN IF ok
              THEN ~Reply(sent', pending_writes, "PutFailure", ev'.id, "DataExists")
              ELSE /\ Reply(sent', pending_writes, "PutFailure", ev'.id, "DataExists")
                   /\ NewWrite(pending_writes, pending_writes', ev'.data, "Put", TRUE)
C7_Step ==
    (ev'.name = "Put" /\ ev'.id.kind # "Immutable" /\ has(chunk_store, ev'.id))
        => LET old == chunk_store[ev'.id]
               ok == StoredTombstone(ev'.id) /\ ev'.data.version = old.version + 1
               full == used_space(chunk_store') > (max_space \div 100) * MAX_FULL_PERCENT
           IN IF ok
              THEN ~Reply(sent', pending_writes, "PutFailure", ev'.id, "DataExists")
              ELSE /\ Reply(sent', pending_writes, "PutFailure", ev'.id, "DataExists")
                   /\ IF full
                      THEN /\ pending_writes' = pending_writes
                           /\ ret' = "DataExists"
                      ELSE NewWrite(pending_writes, pending_writes', ev'.data, "Put", TRUE)
C8_Sequence(sized_posts_only, unless_full) ==
    \A id \in DOMAIN chunk_store :
        StoredTombstone(id) =>
            LET stored == chunk_store[id]
                full == used_space(chunk_store') > (max_space \div 100) * MAX_FULL_PERCENT
            IN /\ (ev'.name = "Delete" /\ ev'.id = id)
                      => Reply(sent', pending_writes, "DeleteFailure", id, "InvalidOperation")
               /\ (ev'.name = "Post" /\ ev'.id = id
                   /\ (sized_posts_only => validate_size(ev'.data)))
                      => Reply(sent', pending_writes, "PostFailure", id, "InvalidOperation")
               /\ (ev'.name = "Put" /\ ev'.id = id /\ ev'.data.version # stored.version + 1)
                      => Reply(sent', pending_writes, "PutFailure", id, "DataExists")
               /\ (ev'.name = "Put" /\ ev'.id = id /\ ev'.data.version = stored.version + 1
                   /\ (unless_full => ~full))
                      => /\ ~Refused(sent', pending_writes, "PutFailure")
                         /\ NewWrite(pending_writes, pending_writes', ev'.data, "Put", FALSE)
               /\ (ev'.name = "GroupRefresh" /\ ev'.id = id)
                      => \A w \in Range(take_pending_writes(pending_writes, id)) :
                             (/\ w.mutate_type = "Put"
                              /\ ~w.rejected
                              /\ w.data.version = stored.version + 1
                              /\ w.hash = ev'.hash
                              /\ used_space(chunk_store) - Size(stored) + Size(w.data)
                                     <= max_space)
                                 => /\ Succeeded(sent', w)
                                    /\ chunk_store'[id] = w.data

C9_Step ==
    /\ (ev'.name = "Post" /\ ev'.id.kind = "Structured") =>
           LET d == ev'.data
               id == ev'.id
               refused(err) ==
                   /\ Reply(sent', pending_writes, "PostFailure", id, err)
                   /\ ~NewWrite(pending_writes, pending_writes', d, "Post", FALSE)
           IN IF ~validate_size(d)
              THEN /\ Len(sent') = 1
                   /\ Reply(sent', pending_writes, "PostFailure", id, "DataTooLarge")
                   /\ UNCHANGED <<chunk_store, unneeded_chunks, data_holders, ongoing_gets,
                                  pending_writes, refresh_accumulator, immutable_data_count,
                                  structured_data_count, appendable_data_count>>
              ELSE IF ~has(chunk_store, id) THEN refused("NoSuchData")
              ELSE IF StoredTombstone(id) THEN refused("InvalidOperation")
              ELSE IF \/ d.version # chunk_store[id].version + 1
                      \/ d.signer # chunk_store[id].owner
              THEN refused("InvalidSuccessor")
              ELSE /\ ~Refused(sent', pending_writes, "PostFailure")
                   /\ NewWrite(pending_writes, pending_writes', d, "Post", FALSE)
    /\ (ev'.name = "GroupRefresh" /\ ev'.id.kind = "Structured") =>
           \A w \in Range(take_pending_writes(pending_writes, ev'.id)) :
               (w.mutate_type = "Post" /\ ~w.rejected /\ w.hash = ev'.hash)
                   => Answered(sent', w, "PostSuccess")
C9_PostErrors == [][C9_Step]_vars

\* C9 witness: a Post of the next version signed by another key than the owner's
\* was refused with InvalidSuccessor
C9_Witness ==
    /\ ev.name = "Post"
    /\ has(chunk_store, SdId)
    /\ ev.data.version = chunk_store[SdId].version + 1
    /\ ev.data.signer # chunk_store[SdId].owner
    /\ \E k \in DOMAIN sent : sent[k].type = "PostFailure" /\ sent[k].err = "InvalidSuccessor"

\* C10: a Get sends exactly one message, GetSuccess with the stored data when the
\* store has the id and GetFailure(NoSuchData) otherwise, to the requester, and
\* changes none of the store, unneeded_chunks, data_holders, ongoing_gets,
\* pending_writes and the refresh accumulator.
C10_Step ==
    ev'.name = "Get" =>
        /\ UNCHANGED <<chunk_store, unneeded_chunks, data_holders, ongoing_gets,
                       pending_writes, refresh_accumulator>>
        /\ Len(sent') = 1
        /\ sent'[1].id = ev'.id
        /\ IF ev'.id \in DOMAIN chunk_store
           THEN sent'[1].type = "GetSuccess" /\ sent'[1].data = chunk_store[ev'.id]
           ELSE sent'[1].type = "GetFailure" /\ sent'[1].err = "NoSuchData"
C10_GetIsReadOnly == [][C10_Step]_vars

\* C10 witness: a Get was answered with GetSuccess while data was still to be
\* fetched or written
C10_Witness ==
    /\ ev.name = "Get"
    /\ Len(sent) = 1
    /\ sent[1].type = "GetSuccess"
    /\ sent[1].data = ImmutableData(ImmId)

\* C11: an Append to an id that is not stored is answered with NoSuchData, one whose
\* wrapper apply_wrapper refuses with InvalidSuccessor, one whose result is over the
\* size limit with DataTooLarge, and in these three cases the failure is the only
\* message sent (no group refresh) and the pending writes and the chunk store stay
\* as they were; in the remaining case, and only then, the result is inserted as a
\* pending write of kind Append that is not rejected, and no failure is sent.
C11_Step ==
    ev'.name = "Append" =>
        LET id == ev'.id
            wrapper == ev'.data
            applied == apply_wrapper(chunk_store[id], wrapper)
            refused(err) ==
                /\ Len(sent') = 1
                /\ Reply(sent', pending_writes, "AppendFailure", id, err)
                /\ UNCHANGED <<pending_writes, chunk_store>>
        IN IF ~has(chunk_store, id) THEN refused("NoSuchData")
           ELSE IF ~applied.ok THEN refused("InvalidSuccessor")
           ELSE IF ~validate_size(applied.data) THEN refused("DataTooLarge")
           ELSE /\ NewWrite(pending_writes, pending_writes', applied.data, "Append", FALSE)
                /\ ~Refused(sent', pending_writes, "AppendFailure")
                /\ UNCHANGED chunk_store
C11_AppendInsertsOnlyValidResults == [][C11_Step]_vars

\* C11 witness: an Append to a stored datum close to the size limit, with the stored
\* version, was answered with DataTooLarge alone
C11_Witness ==
    /\ ev.name = "Append"
    /\ has(chunk_store, AdId)
    /\ ev.data.version = chunk_store[AdId].version
    /\ ~validate_size(apply_wrapper(chunk_store[AdId], ev.data).data)
    /\ Len(sent) = 1
    /\ sent[1].type = "AppendFailure"
    /\ sent[1].err = "DataTooLarge"

\* C12: a well-formed group refresh for an id removes every pending write of that id
\* and leaves the writes of the other ids alone; a write whose hash differs from the
\* refreshed hash is answered with NetworkOther("Concurrent modification.") when it
\* is not rejected and gets no reply when it is rejected; a write whose hash equals
\* the refreshed hash is stored and answered with the success reply of its kind.
\* With unless_refused, the last part holds of the writes the chunk store accepts,
\* and a write it refuses is answered with NetworkOther("Failed to store chunk").
C12_Commit(unless_refused) ==
    (ev'.name = "GroupRefresh" /\ ev'.id # NoId) =>
        /\ pending_writes' = MapRemove(pending_writes, ev'.id)
        /\ \A w \in {x \in AllWrites(pending_writes) : x.data.id = ev'.id} :
               IF w.hash # ev'.hash
               THEN IF w.rejected
                    THEN \A k \in DOMAIN sent' : sent'[k].msg_id # w.message_id
                    ELSE AnsweredWith(sent', w, w.mutate_type \o "Failure",
                                      "Concurrent modification.")
               ELSE IF unless_refused /\ ~put_ok(chunk_store, ev'.id, w.data)
               THEN /\ AnsweredWith(sent', w, w.mutate_type \o "Failure",
                                     "Failed to store chunk")
                    /\ ~Succeeded(sent', w)
                    /\ UNCHANGED chunk_store
               ELSE /\ Succeeded(sent', w)
                    /\ has(chunk_store', ev'.id)
                    /\ chunk_store'[ev'.id] = w.data
C12_MatchingWritesAlwaysStored == [][C12_Commit(FALSE)]_vars

C12_GroupRefreshSettlesWrites == [][C12_Commit(TRUE)]_vars

\* C12 witness: a group refresh has committed a pending Append with AppendSuccess
\* and removed it, while a Put of another id stayed pending
C12_Witness ==
    /\ ev.name = "GroupRefresh"
    /\ ev.id = AdId
    /\ \E i \in DOMAIN sent : sent[i].type = "AppendSuccess"
    /\ has(chunk_store, AdId)
    /\ chunk_store[AdId].items # {}
    /\ ImmId \in DOMAIN pending_writes
    /\ AdId \notin DOMAIN pending_writes

\* C13: when a well-formed group refresh is handled, no pending write commits and the
\* node is in the close group of the id, every peer of that close group is recorded
\* as a holder of the refreshed (id, version), or is being asked for it, and a Get
\* for the id is sent to a member of the group.
C13_Step ==
    LET idv == ev'.data
        group == close_group(routing_table, ev'.id.name)
    IN (/\ ev'.name = "GroupRefresh"
        /\ ev'.id # NoId
        /\ \A k \in DOMAIN sent' : sent'[k].type \notin
               {"PutSuccess", "PostSuccess", "DeleteSuccess", "AppendSuccess"}
        /\ group # <<>>)
       => /\ \A p \in Range(group) \ {OurName} :
                 \/ p \in DOMAIN data_holders' /\ idv \in data_holders'[p]
                 \/ p \in DOMAIN ongoing_gets' /\ ongoing_gets'[p].idv = idv
          /\ \E k \in DOMAIN sent', p \in Range(group) :
                 sent'[k] = GetRequestMsg(p, ev'.id)
C13_UncommittedRefreshSeedsHolders == [][C13_Step]_vars

\* C14: a step records a peer as holder of an (id, version), in data_holders or as
\* the target of a Get for it, only when some peer was already recorded as holding
\* that (id, version), or when the step handles a refresh and the peers that have
\* voted for it, the sender included, are at least GROUP_SIZE / 2 + 1 distinct
\* peers; so the refreshes of a single peer never create the first holder record.
C14_Step ==
    \A p \in DOMAIN data_holders' \cup DOMAIN ongoing_gets' :
        \A idv \in (IF p \in DOMAIN data_holders' THEN data_holders'[p] ELSE {})
                  \cup (IF p \in DOMAIN ongoing_gets' THEN {ongoing_gets'[p].idv} ELSE {}) :
            LET recorded == \/ p \in DOMAIN data_holders /\ idv \in data_holders[p]
                            \/ p \in DOMAIN ongoing_gets /\ ongoing_gets[p].idv = idv
                votes == live_votes(refresh_accumulator, now)
                voters == IF idv \in DOMAIN votes THEN votes[idv].voters ELSE {}
            IN ~recorded =>
                   \/ is_registered(data_holders, idv)
                   \/ /\ ev'.name = "Refresh"
                      /\ ret' = "Ok"
                      /\ Cardinality(voters \cup {ev'.src}) >= GROUP_SIZE \div 2 + 1
C14_HoldersNeedQuorum == [][C14_Step]_vars

\* C14 witness: the refresh of a second peer has completed the quorum for a chunk the
\* node lacks; both voters became holders and one of them is asked for the chunk
C14_Witness ==
    /\ ev.name = "Refresh"
    /\ IdV(ImmId, 0) \notin DOMAIN refresh_accumulator
    /\ \E p \in Peers :
           /\ p \in DOMAIN ongoing_gets
           /\ ongoing_gets[p].idv = IdV(ImmId, 0)
           /\ \E k \in DOMAIN sent : sent[k] = GetRequestMsg(p, ImmId)
    /\ \E q \in DOMAIN data_holders : IdV(ImmId, 0) \in data_holders[q]

\* C15: after every step no two entries of ongoing_gets are for the same DataId
\* (ongoing_gets holds one entry per peer); and a step sends a Get to a peer only
\* when the peer has no Get outstanding, and for an id only when no other peer has a
\* Get for it outstanding, where a Get is outstanding unless it is older than
\* GET_FROM_DATA_HOLDER_TIMEOUT_SECS or its peer has just answered it.
C15_Step ==
    LET outstanding(q) ==
            /\ q \in DOMAIN ongoing_gets
            /\ ~expired_get(ongoing_gets[q], now)
            /\ ~(/\ ev'.name \in {"GetSuccess", "GetFailure"}
                 /\ ev'.src = q
                 /\ ev'.id = ongoing_gets[q].idv.id)
    IN /\ \A p, q \in DOMAIN ongoing_gets' :
              p # q => ongoing_gets'[p].idv.id # ongoing_gets'[q].idv.id
       /\ \A k \in DOMAIN sent' :
              sent'[k].type = "Get" =>
                  /\ ~outstanding(sent'[k].to.name)
                  /\ \A q \in DOMAIN ongoing_gets :
                         outstanding(q) => ongoing_gets[q].idv.id # sent'[k].id
                  /\ \A j \in DOMAIN sent' :
                         (j # k /\ sent'[j].type = "Get")
                             => /\ sent'[j].to # sent'[k].to
                                /\ sent'[j].id # sent'[k].id
C15_OneFetchPerIdAndPeer == [][C15_Step]_vars

\* C15 witness: both peers hold both chunks, and each peer is asked for a different
\* one of them
C15_Witness ==
    /\ DOMAIN ongoing_gets = Peers
    /\ ongoing_gets[1].idv.id # ongoing_gets[2].idv.id
    /\ \E p \in DOMAIN data_holders :
           ongoing_gets[3 - p].idv \in data_holders[p]

\* C16: when a GetSuccess delivers an appendable datum of the stored version and the
\* node is close to its name, the items stored afterwards are the union of the
\* received and the previously stored items. With unless_refused, this holds when
\* the chunk store accepts the merged datum, the stored datum stays as it was when
\* the store refuses it, and in both cases no stored item is lost.
C16_Merge(unless_refused) ==
    LET id == ev'.id
        received == ev'.data
        merged == [received EXCEPT !.items = @ \cup chunk_store[id].items]
    IN (/\ ev'.name = "GetSuccess"
        /\ IsAppendable(id)
        /\ has(chunk_store, id)
        /\ chunk_store[id].version = received.version
        /\ close_to_address(routing_table, id.name))
       => /\ has(chunk_store', id)
          /\ chunk_store[id].items \subseteq chunk_store'[id].items
          /\ IF unless_refused
                 /\ ~put_ok(clean_chunk_store(chunk_store, unneeded_chunks).cs, id, merged)
             THEN chunk_store'[id] = chunk_store[id]
             ELSE chunk_store'[id].items = received.items \cup chunk_store[id].items
C16_MergeAlwaysStoresUnion == [][C16_Merge(FALSE)]_vars

C16_MergeKeepsItems == [][C16_Merge(TRUE)]_vars

\* C16 witness: a GetSuccess has delivered item 2 for the stored version of a datum
\* that held item 1, and the store holds both
C16_Witness ==
    /\ ev.name = "GetSuccess"
    /\ ev.id = AdId
    /\ ev.data.items = {2}
    /\ has(chunk_store, AdId)
    /\ chunk_store[AdId].version = ev.data.version
    /\ chunk_store[AdId].items = {1, 2}

\* C19: for every used and maximal space, chunk_store_full reports full exactly
\* when used * 100 > max * 50.
C19_FullAboveHalf ==
    ev.name = "ChunkStoreFull" =>
        ((ret = "full") <=> (ev.data.used * 100 > ev.data.max * 50))

\* C18: a Put first deletes unneeded chunks from the store, oldest first, until the
\* store is not full or unneeded_chunks is empty; when the store is still full after
\* that, the client is sent PutFailure(NetworkFull), handle_put returns that error
\* and no pending write is inserted. With as_coded, a Put of an immutable chunk the
\* store holds is set apart (it is answered with PutSuccess at once, nothing is
\* deleted), and the failure sent and returned by a full store is DataExists when
\* the Put may not replace the stored chunk.
C18_Put(as_coded) ==
    LET id == ev'.id
        n == Len(unneeded_chunks) - Len(unneeded_chunks')
        after(m) == [x \in DOMAIN chunk_store \ {unneeded_chunks[i] : i \in 1..m}
                        |-> chunk_store[x]]
        valid == has(chunk_store, id) =>
                     (StoredTombstone(id) /\ ev'.data.version = chunk_store[id].version + 1)
        error == IF as_coded /\ ~valid THEN "DataExists" ELSE "NetworkFull"
    IN (ev'.name = "Put" /\ ~(as_coded /\ id.kind = "Immutable" /\ has(chunk_store, id)))
       => /\ n \in 0..Len(unneeded_chunks)
          /\ unneeded_chunks' = SubSeq(unneeded_chunks, n + 1, Len(unneeded_chunks))
          /\ chunk_store' = after(n)
          /\ \A m \in 0..(n - 1) : chunk_store_full(after(m))
          /\ n = Len(unneeded_chunks) \/ ~chunk_store_full(after(n))
          /\ chunk_store_full(chunk_store')
                 => /\ Len(sent') = 1
                    /\ Reply(sent', pending_writes, "PutFailure", id, error)
                    /\ ret' = error
                    /\ UNCHANGED pending_writes
C20_Step ==
    LET counted(cs, unneeded) ==
            {id \in DOMAIN cs : id.kind = "Immutable" /\ id \notin Range(unneeded)}
        marked == Range(unneeded_chunks') \ Range(unneeded_chunks)
        reclaimed == (Range(unneeded_chunks) \ Range(unneeded_chunks')) \cap DOMAIN chunk_store'
    IN /\ \A idv \in get_stored_names(chunk_store', unneeded_chunks') :
              idv.id \notin Range(unneeded_chunks')
       /\ Range(unneeded_chunks') \subseteq DOMAIN chunk_store'
       /\ immutable_data_count' = Cardinality(counted(chunk_store', unneeded_chunks'))
       /\ marked # {} =>
              /\ ev'.name = "NodeAdded"
              /\ immutable_data_count' = immutable_data_count - Cardinality(marked)
       /\ reclaimed # {} =>
              /\ ev'.name = "NodeLost"
              /\ \A id \in reclaimed : is_closest(routing_table', id.name)
              /\ immutable_data_count' = immutable_data_count + Cardinality(reclaimed)
C20_UnneededNotCounted == [][C20_Step]_vars

\* C20 witness: a node has joined, two stored chunks are unneeded and off the
\* counter, a third one is still counted
C20_Witness ==
    /\ ev.name = "NodeAdded"
    /\ Len(unneeded_chunks) = 2
    /\ Cardinality(DOMAIN chunk_store) = 3
    /\ immutable_data_count = 1

\* C21: a Refresh or a GroupRefresh whose payload does not deserialise, and a
\* GetFailure of a peer that has no Get outstanding for exactly that id, return an
\* error (InvalidMessage for the GetFailure), send nothing and leave the chunk store,
\* data_holders, ongoing_gets, pending_writes, unneeded_chunks and the accumulator
\* as they were.
C21_Step ==
    LET malformed == ev'.name \in {"Refresh", "GroupRefresh"} /\ ev'.id = NoId
        unexpected == /\ ev'.name = "GetFailure"
                      /\ ~(/\ ev'.src \in DOMAIN ongoing_gets
                           /\ ongoing_gets[ev'.src].idv.id = ev'.id)
    IN (malformed \/ unexpected)
       => /\ ret' # "Ok"
          /\ unexpected => ret' = "InvalidMessage"
          /\ sent' = <<>>
          /\ UNCHANGED <<chunk_store, data_holders, ongoing_gets, pending_writes,
                         unneeded_chunks, refresh_accumulator>>
C21_ProtocolErrorsChangeNothing == [][C21_Step]_vars

\* C21 witness: a peer that is being asked for one chunk has sent a GetFailure for
\* another one; it was refused with InvalidMessage and its Get is still outstanding
C21_Witness ==
    /\ ev.name = "GetFailure"
    /\ ret = "InvalidMessage"
    /\ ev.src \in DOMAIN ongoing_gets
    /\ ongoing_gets[ev.src].idv.id # ev.id

\* C22: after every operation, data_holders holds no peer whose set of (id, version)
\* is empty.
C22_NoEmptyHolders ==
    \A p \in DOMAIN data_holders : data_holders[p] # {}

\* whether a cache has started a fetch of idv, and the peers it records as holders of
\* idv or asks for it
FetchState(c, idv) ==
    [started |-> \E p \in DOMAIN c.og : c.og[p].idv = idv,
     peers |-> {p \in DOMAIN c.dh : idv \in c.dh[p]}
               \cup {p \in DOMAIN c.og : c.og[p].idv = idv}]

\* C23: when the refresh votes of some peers for an (id, version) the node needs have
\* been handled, whether a fetch was started and the peers recorded as holders or
\* asked for the data are what handling the votes of the same set of peers in any
\* other order, with any repetitions, can give.
C23_VoteOrderIrrelevant ==
    ev.name = "Refreshes" =>
        \A other \in VoteSeqs :
            Range(other) = Range(ev.data) =>
                \E c \in after_refreshes([dh |-> EmptyMap, og |-> EmptyMap, acc |-> EmptyMap],
                                         other, <<IdV(ev.id, 0)>>, chunk_store,
                                         routing_table, now) :
                    FetchState(c, IdV(ev.id, 0))
                        = FetchState([dh |-> data_holders, og |-> ongoing_gets],
                                     IdV(ev.id, 0))

\* C24: a mutation that inserts a pending write puts it in front of the writes of
\* its id that have not expired, which keep their order, and the expired ones are
\* gone; the step sends a group refresh if and only if the new write is not rejected
\* and every one of those earlier writes is rejected, and then it sends one, to
\* NaeManager(name), with the (id, version) and the hash of the new write; no other
\* step sends a group refresh.
C24_Step ==
    LET id == ev'.id
        inserted == /\ ev'.name \in {"Put", "Post", "Delete", "Append"}
                    /\ id \in DOMAIN pending_writes'
                    /\ Head(pending_writes'[id]).message_id \notin PendingMsgIds(pending_writes)
        new == Head(pending_writes'[id])
        before == IF id \in DOMAIN pending_writes THEN pending_writes[id] ELSE <<>>
        prior == {w \in Range(before) : now - w.timestamp <= PENDING_WRITE_TIMEOUT_SECS}
        refreshes == {k \in DOMAIN sent' : sent'[k].type = "GroupRefresh"}
    IN /\ refreshes # {} => inserted
       /\ inserted =>
              /\ Tail(pending_writes'[id]) = SubSeq(before, 1, Cardinality(prior))
              /\ Range(Tail(pending_writes'[id])) = prior
              /\ refreshes # {} <=> (~new.rejected /\ \A w \in prior : w.rejected)
              /\ \A k \in refreshes :
                     /\ sent'[k] = send_group_refresh(id.name, id_and_version_of(new.data),
                                                      new.hash, new.message_id)
                     /\ refreshes = {k}
C25_Post(sized_posts_only) ==
    (ev'.name = "Post" /\ ~has(chunk_store, ev'.id)) =>
        IF sized_posts_only /\ Size(ev'.data) > 100
        THEN /\ Len(sent') = 1
             /\ Reply(sent', pending_writes, "PostFailure", ev'.id, "DataTooLarge")
             /\ UNCHANGED pending_writes
        ELSE /\ Reply(sent', pending_writes, "PostFailure", ev'.id, "NoSuchData")
             /\ IF ev'.id.kind = "Structured"
                THEN /\ NewWrite(pending_writes, pending_writes', ev'.data, "Post", TRUE)
                     /\ \A k \in DOMAIN sent' : sent'[k].type # "GroupRefresh"
                ELSE UNCHANGED pending_writes
C25_NonexistentPostAlwaysNoSuchData == [][C25_Post(FALSE)]_vars

C25_NonexistentPost == [][C25_Post(TRUE)]_vars

\* C25 witness: a Post of a structured datum that is not stored was answered with
\* NoSuchData and sits in the ledger as a rejected write
C25_Witness ==
    /\ ev.name = "Post"
    /\ ev.id = SdId
    /\ ~has(chunk_store, SdId)
    /\ \E k \in DOMAIN sent : sent[k].type = "PostFailure" /\ sent[k].err = "NoSuchData"
    /\ SdId \in DOMAIN pending_writes
    /\ Head(pending_writes[SdId]).rejected
    /\ Head(pending_writes[SdId]).mutate_type = "Post"

\* C26: when the refresh of a peer completes the quorum of votes for an (id, version)
\* that no peer is recorded to hold, the loop of handle_refresh adds the voters to
\* data_holders if the data is needed (not stored; or structured and stored at a
\* lower version; or appendable and stored at a lower or the same version) and
\* leaves data_holders as it was otherwise; when the data is needed every voter is
\* a holder of it or is asked for it when the handler returns, when it is not needed
\* no peer is a holder of it and no Get for it is started; in both cases the
\* accumulator has no entry for (id, version) afterwards.
C26_Step ==
    LET idv == ev'.data
        id == ev'.id
        votes == live_votes(refresh_accumulator, now)
        voters == (IF idv \in DOMAIN votes THEN votes[idv].voters ELSE {}) \cup {ev'.src}
        needed == \/ ~has(chunk_store, id)
                  \/ id.kind = "Structured" /\ chunk_store[id].version < idv.version
                  \/ IsAppendable(id) /\ chunk_store[id].version <= idv.version
        loop == refresh_votes(<<idv>>, [dh |-> data_holders, acc |-> refresh_accumulator],
                              ev'.src, chunk_store, now)
    IN (/\ ev'.name = "Refresh"
        /\ id # NoId
        /\ ~is_registered(data_holders, idv)
        /\ Cardinality(voters) >= ACCUMULATOR_QUORUM)
       => /\ idv \notin DOMAIN refresh_accumulator'
          /\ IF needed
             THEN /\ loop.dh = add_records(data_holders, idv, voters)
                  /\ \A p \in voters :
                         \/ p \in DOMAIN data_holders' /\ idv \in data_holders'[p]
                         \/ p \in DOMAIN ongoing_gets' /\ ongoing_gets'[p].idv = idv
             ELSE /\ loop.dh = data_holders
                  /\ \A p \in DOMAIN data_holders' : idv \notin data_holders'[p]
                  /\ \A p \in DOMAIN ongoing_gets' :
                         ongoing_gets'[p].idv = idv
                             => p \in DOMAIN ongoing_gets /\ ongoing_gets[p] = ongoing_gets'[p]
C26_HoldersOnlyIfNeeded == [][C26_Step]_vars

\* C26 witness: the quorum was completed for the stored version of an appendable
\* datum, which is needed, and one of the voters is asked for it
C26_Witness ==
    /\ ev.name = "Refresh"
    /\ ev.id = AdId
    /\ has(chunk_store, AdId)
    /\ chunk_store[AdId].version = ev.data.version
    /\ ev.data \notin DOMAIN refresh_accumulator
    /\ \E p \in DOMAIN ongoing_gets : ongoing_gets[p].idv = ev.data /\ ongoing_gets[p].timestamp = now
    /\ \E k \in DOMAIN sent : sent[k].type = "Get" /\ sent[k].id = AdId

\* C27: a GetSuccess leaves the chunk store and the counters as they were when the
\* node is not in the close group of the name, when the data is immutable and
\* stored, structured and stored at a version greater than or equal to the received
\* one, or appendable and stored at a greater version; in every other case the
\* store holds the received data afterwards, merged with the stored items when it is
\* appendable and of the stored version, and the counter of its kind grows by one
\* if the id was not stored and stays otherwise. With unless_refused, the last part
\* holds when the chunk store accepts the data; when it refuses it the handler
\* returns the error, the id keeps what was stored for it and nothing is counted.
C27_Store(unless_refused) ==
    LET id == ev'.id
        data == ev'.data
        stored == has(chunk_store, id)
        old == chunk_store[id]
        drop == \/ ~is_closest(routing_table, id.name)
                \/ id.kind = "Immutable" /\ stored
                \/ id.kind = "Structured" /\ stored /\ old.version >= data.version
                \/ IsAppendable(id) /\ stored /\ old.version > data.version
        merged == IF IsAppendable(id) /\ stored /\ old.version = data.version
                  THEN [data EXCEPT !.items = @ \cup old.items]
                  ELSE data
        refused == ~put_ok(clean_chunk_store(chunk_store, unneeded_chunks).cs, id, merged)
        counted == IF stored THEN CurCounts ELSE count_added_data(CurCounts, id)
        counts_after == Counts(immutable_data_count', structured_data_count',
                               appendable_data_count')
    IN ev'.name = "GetSuccess" =>
           IF drop
           THEN /\ UNCHANGED chunk_store
                /\ counts_after = CurCounts
           ELSE IF unless_refused /\ refused
           THEN /\ ret' = "ChunkStore"
                /\ has(chunk_store', id) = stored
                /\ stored => chunk_store'[id] = old
                /\ counts_after = CurCounts
           ELSE /\ has(chunk_store', id)
                /\ chunk_store'[id] = merged
                /\ counts_after = counted
C27_ReceivedAlwaysStored == [][C27_Store(FALSE)]_vars

C27_ReceivedDataStored == [][C27_Store(TRUE)]_vars

\* C27 witness: a newer version of a stored structured datum was received and
\* replaced it without being counted again, next to a stored appendable datum
C27_Witness ==
    /\ ev.name = "GetSuccess"
    /\ ev.id = SdId
    /\ ev.data.version = 1
    /\ chunk_store[SdId] = ev.data
    /\ structured_data_count = 1
    /\ has(chunk_store, AdId)
    /\ appendable_data_count = 1

\* C28: Cache::handle_get_success(src, id, version) removes the outstanding Get of src
\* when it is for id and keeps it, timestamp included, when it is for another id; it
\* leaves the outstanding Gets of the other peers alone and adds none; it removes
\* (id, version) from the holder set of every peer and nothing else. When the
\* handler returns no peer holds (id, version), and the Gets it kept are still
\* outstanding.
C28_Step ==
    LET src == ev'.src
        id == ev'.id
        idv == IdV(ev'.id, ev'.data.version)
        c == cache_handle_get_success(ongoing_gets, data_holders, src, id, idv.version)
        kept == {p \in DOMAIN ongoing_gets : p # src \/ ongoing_gets[p].idv.id # id}
    IN ev'.name = "GetSuccess" =>
           /\ DOMAIN c.og = kept
           /\ \A p \in kept : c.og[p] = ongoing_gets[p]
           /\ DOMAIN c.dh = DOMAIN data_holders
           /\ \A p \in DOMAIN data_holders : c.dh[p] = data_holders[p] \ {idv}
           /\ \A p \in DOMAIN data_holders' : idv \notin data_holders'[p]
           /\ \A p \in kept : p \in DOMAIN ongoing_gets' /\ ongoing_gets'[p] = ongoing_gets[p]
C28_GetSuccessClearsOneRecord == [][C28_Step]_vars

\* C28 witness: peer 1 has delivered version 1 of the structured datum while it was
\* asked for another chunk; that Get is still outstanding, and a peer is still
\* recorded as holder of version 2
C28_Witness ==
    /\ ev.name = "GetSuccess"
    /\ ev.src = 1
    /\ ev.data = StructuredData(SdId, 1, "a", "o1", "o1")
    /\ 1 \in DOMAIN ongoing_gets
    /\ ongoing_gets[1].idv.id # SdId
    /\ \A k \in DOMAIN sent : sent[k].to.name # 1
    /\ \E p \in DOMAIN data_holders : IdV(SdId, 2) \in data_holders[p]

\* C29: a NodeAdded event leaves the store as it was but for the stored ids that
\* are not unneeded and of whose close group the node is no member any more: the
\* immutable ones stay stored and are appended to unneeded_chunks, the structured
\* and appendable ones are deleted, and each takes one off the counter of its kind.
\* The records are those of the store, of the holders and of the Gets that are left
\* after pruning, without the unneeded ones; the new node is sent one refresh that
\* lists, once each, exactly the records of whose close group both this node and the
\* new node are members, and no refresh when there is none.
C29_Step ==
    LET node_name == ev'.src
        rt == routing_table'
        dropped == {id \in DOMAIN chunk_store :
                        ~is_closest(rt, id.name) /\ id \notin Range(unneeded_chunks)}
        marked == {id \in dropped : id.kind = "Immutable"}
        of_kind(kind) == Cardinality({id \in dropped : id.kind = kind})
        records == (UNION {data_holders'[p] : p \in DOMAIN data_holders'}
                    \cup {ongoing_gets'[p].idv : p \in DOMAIN ongoing_gets'}
                    \cup {IdV(id, IF id.kind = "Immutable" THEN 0
                                  ELSE chunk_store[id].version) : id \in DOMAIN chunk_store})
                       \ {IdV(id, 0) : id \in Range(unneeded_chunks)}
        listed == {idv \in records :
                       /\ is_closest(rt, idv.id.name)
                       /\ node_name \in Range(closest_names(rt, idv.id.name))}
        refreshes == {i \in DOMAIN sent' : sent'[i].type = "Refresh"}
    IN ev'.name = "NodeAdded" =>
           /\ DOMAIN chunk_store' = DOMAIN chunk_store \ (dropped \ marked)
           /\ \A id \in DOMAIN chunk_store' : chunk_store'[id] = chunk_store[id]
           /\ \E o \in Orders(marked) : unneeded_chunks' = unneeded_chunks \o o
           /\ immutable_data_count' = immutable_data_count - of_kind("Immutable")
           /\ structured_data_count' = structured_data_count - of_kind("Structured")
           /\ appendable_data_count' =
                  appendable_data_count - (Cardinality(dropped) - of_kind("Immutable")
                                           - of_kind("Structured"))
           /\ Cardinality(refreshes) = IF listed = {} THEN 0 ELSE 1
           /\ \A i \in refreshes :
                  /\ sent'[i].to = Authority("ManagedNode", node_name)
                  /\ Range(sent'[i].idvs) = listed
                  /\ Len(sent'[i].idvs) = Cardinality(listed)
C29_NodeAdded == [][C29_Step]_vars

\* C29 witness: node 3 has joined; the stored immutable chunk 7 became unneeded, the
\* stored appendable datum was deleted, and the new node was sent the stored
\* structured datum and the chunk that is being fetched
C29_Witness ==
    /\ ev.name = "NodeAdded"
    /\ ev.src = 3
    /\ unneeded_chunks = <<DataId("Immutable", 7)>>
    /\ DOMAIN chunk_store = {DataId("Immutable", 7), SdId}
    /\ immutable_data_count = 0
    /\ appendable_data_count = 0
    /\ \E i \in DOMAIN sent :
           /\ sent[i].type = "Refresh"
           /\ Range(sent[i].idvs) = {IdV(SdId, 0), IdV(ImmId, 0)}

\* C30: a NodeLost event takes out of unneeded_chunks exactly the ids of whose close
\* group the node is a member again, keeping the order of the others and adding
\* none, and adds their number to the immutable counter; the chunk store is left as
\* it was. A record (of the store, of the holders and Gets left after pruning,
\* without the chunks still unneeded) is sent to a peer in a refresh if and only if
\* the peer is the other closest name at index GROUP_SIZE - 2 of the close group of
\* the record's name and the lost node is strictly closer to that name than the
\* peer; each peer gets at most one refresh, which lists each of its records once.
C30_Step ==
    LET node_name == ev'.src
        rt == routing_table'
        reclaimed == {id \in Range(unneeded_chunks) : is_closest(rt, id.name)}
        records == (UNION {data_holders'[p] : p \in DOMAIN data_holders'}
                    \cup {ongoing_gets'[p].idv : p \in DOMAIN ongoing_gets'}
                    \cup {IdV(id, IF id.kind = "Immutable" THEN 0
                                  ELSE chunk_store[id].version) : id \in DOMAIN chunk_store})
                       \ {IdV(id, 0) : id \in Range(unneeded_chunks')}
        others(name) == SeqFilterOut(closest_names(rt, name), {OurName})
        due(idv, peer) ==
            /\ is_closest(rt, idv.id.name)
            /\ Len(others(idv.id.name)) >= GROUP_SIZE - 1
            /\ peer = others(idv.id.name)[GROUP_SIZE - 1]
            /\ Xor(idv.id.name, node_name) < Xor(idv.id.name, peer)
        refreshes == {i \in DOMAIN sent' : sent'[i].type = "Refresh"}
        sent_to(idv, peer) ==
            \E i \in refreshes : /\ sent'[i].to = Authority("ManagedNode", peer)
                                 /\ idv \in Range(sent'[i].idvs)
    IN ev'.name = "NodeLost" =>
           /\ unneeded_chunks' = SeqFilterOut(unneeded_chunks, reclaimed)
           /\ immutable_data_count' = immutable_data_count + Cardinality(reclaimed)
           /\ UNCHANGED chunk_store
           /\ \A i \in refreshes :
                  /\ sent'[i].to.auth = "ManagedNode"
                  /\ Range(sent'[i].idvs) \subseteq records
                  /\ Len(sent'[i].idvs) = Cardinality(Range(sent'[i].idvs))
                  /\ \A j \in refreshes : sent'[j].to = sent'[i].to => j = i
           /\ \A idv \in records : \A peer \in rt \cup {node_name} :
                  sent_to(idv, peer) <=> due(idv, peer)
C31_Step ==
    LET rt == routing_table'
        valid(p, id) == /\ is_closest(rt, id.name)
                        /\ p \in Range(closest_names(rt, id.name))
        removed == {p \in DOMAIN ongoing_gets : ~valid(p, ongoing_gets[p].idv.id)}
        fetched == {ongoing_gets'[p].idv.id : p \in DOMAIN ongoing_gets'}
    IN ev'.name \in {"NodeAdded", "NodeLost"} =>
           /\ \A p \in DOMAIN data_holders' : \A idv \in data_holders'[p] : valid(p, idv.id)
           /\ \A p \in DOMAIN ongoing_gets' : valid(p, ongoing_gets'[p].idv.id)
           /\ removed # {} =>
                  \A p \in DOMAIN data_holders' \ DOMAIN ongoing_gets' :
                      \A idv \in data_holders'[p] : idv.id \in fetched
C31_ChurnPrunesFetchState == [][C31_Step]_vars

\* C31 witness: node 3 has joined and pushed peer 2, which was being asked for a
\* chunk, out of the close group of the chunk; the Get to peer 2 is gone and peer 1,
\* a holder of the chunk, was asked in the same event
C31_Witness ==
    /\ ev.name = "NodeAdded"
    /\ ev.src = 3
    /\ DOMAIN ongoing_gets = {1}
    /\ ongoing_gets[1].idv = IdV(ImmId, 0)
    /\ 2 \notin DOMAIN data_holders
    /\ \E i \in DOMAIN sent : sent[i] = GetRequestMsg(1, ImmId)

\* C33: the scheduling pass of check_timeouts, which follows every event, removes
\* every outstanding Get that is older than GET_FROM_DATA_HOLDER_TIMEOUT_SECS, so
\* none is left after it; the id of a removed Get is not counted as being fetched
\* any more: when another peer without a Get is recorded as holder of the id and
\* every candidate of the pass is in the close group of its id, then after the pass
\* the id is asked for again or that peer was given another Get.
C33_Step ==
    LET old == {p \in DOMAIN ongoing_gets :
                    now - ongoing_gets[p].timestamp > GET_FROM_DATA_HOLDER_TIMEOUT_SECS}
        fetched == {ongoing_gets'[p].idv.id : p \in DOMAIN ongoing_gets'}
        in_group(p, id) == /\ is_closest(routing_table, id.name)
                           /\ p \in Range(closest_names(routing_table, id.name))
        all_in_group == \A r \in DOMAIN data_holders :
                            \A idv \in data_holders[r] :
                                (r \in DOMAIN data_holders' /\ idv \in data_holders'[r])
                                \/ in_group(r, idv.id)
        idle_holders(id) == {q \in DOMAIN data_holders :
                                /\ q \notin DOMAIN ongoing_gets \ old
                                /\ \E idv \in data_holders[q] : idv.id = id}
    IN ev'.name = "CheckTimeouts" =>
           /\ \A p \in old : ~(p \in DOMAIN ongoing_gets' /\ ongoing_gets'[p] = ongoing_gets[p])
           /\ \A p \in DOMAIN ongoing_gets' :
                  now - ongoing_gets'[p].timestamp <= GET_FROM_DATA_HOLDER_TIMEOUT_SECS
           /\ all_in_group =>
                  \A p \in old : \A q \in idle_holders(ongoing_gets[p].idv.id) \ {p} :
                      \/ ongoing_gets[p].idv.id \in fetched
                      \/ q \in DOMAIN ongoing_gets'
C33_ExpiredGetsReaped == [][C33_Step]_vars

\* C33 witness: the Get sent to peer 1 for a chunk was never answered; the pass that
\* follows a later event removed it and asked peer 2, the other holder, instead
C33_Witness ==
    /\ ev.name = "CheckTimeouts"
    /\ now > GET_FROM_DATA_HOLDER_TIMEOUT_SECS
    /\ DOMAIN ongoing_gets = {2}
    /\ ongoing_gets[2] = OngoingGet(now, IdV(ImmId, 0))
    /\ sent = <<GetRequestMsg(2, ImmId)>>

\* C34: a GetFailure of peer P that matches P's outstanding Get for the id X removes
\* that Get and records nothing new under any peer, and Gets are scheduled again
\* before the handler returns. With always_for_X: if another peer that has no Get
\* outstanding is recorded as holder of X and is in the close group of X, a Get for X
\* is sent to such a peer in the same event. Without it: each such peer is given a
\* Get in the same event, for X or for another id it holds, or X is asked of another
\* peer, unless the pass dropped a candidate that is outside the close group of its
\* id.
C34_GetFailure(always_for_X) ==
    LET P == ev'.src
        X == ev'.id
        in_group(p, id) == /\ is_closest(routing_table, id.name)
                           /\ p \in Range(closest_names(routing_table, id.name))
        others == {q \in DOMAIN data_holders \ (DOMAIN ongoing_gets \cup {P}) :
                       /\ in_group(q, X)
                       /\ \E idv \in data_holders[q] : idv.id = X}
        asked(q, id) == /\ q \in DOMAIN ongoing_gets'
                        /\ ongoing_gets'[q].timestamp = now
                        /\ \E i \in DOMAIN sent' :
                               sent'[i] = GetRequestMsg(q, ongoing_gets'[q].idv.id)
                        /\ id # NoId => ongoing_gets'[q].idv.id = id
        fetched == {ongoing_gets'[p].idv.id : p \in DOMAIN ongoing_gets'}
        all_in_group == \A r \in DOMAIN data_holders :
                            \A idv \in data_holders[r] :
                                (r \in DOMAIN data_holders' /\ idv \in data_holders'[r])
                                \/ in_group(r, idv.id)
    IN (ev'.name = "GetFailure" /\ ret' = "Ok") =>
           /\ P \in DOMAIN ongoing_gets /\ ongoing_gets[P].idv.id = X
           /\ P \in DOMAIN ongoing_gets' => asked(P, NoId)
           /\ \A q \in DOMAIN data_holders' :
                  q \in DOMAIN data_holders /\ data_holders'[q] \subseteq data_holders[q]
           /\ IF always_for_X
              THEN others # {} => \E q \in others : asked(q, X)
              ELSE all_in_group =>
                       \A q \in others : asked(q, NoId) \/ X \in fetched
C34_FailedIdAskedAgainAtOnce == [][C34_GetFailure(TRUE)]_vars

C34_FailedGetRescheduled == [][C34_GetFailure(FALSE)]_vars

\* C34 witness: peer 1 has failed the Get for a chunk; its Get is gone and peer 3,
\* the other holder in the close group of the chunk, was asked in the same event
C34_Witness ==
    /\ ev.name = "GetFailure"
    /\ ev.src = 1
    /\ ret = "Ok"
    /\ 1 \notin DOMAIN ongoing_gets
    /\ 3 \in DOMAIN ongoing_gets
    /\ ongoing_gets[3] = OngoingGet(now, IdV(ImmId, 0))
    /\ \E i \in DOMAIN sent : sent[i] = GetRequestMsg(3, ImmId)

\* C35: after every step each of the three counters is at least zero and equals the
\* number of chunks of its kind that are stored and not in unneeded_chunks. The
\* counters are u64 in the code: a value below zero here is a subtraction from zero
\* there, which panics in a build with overflow checks and wraps without them.
C35_CountersMatchStore ==
    LET counted(kinds) == Cardinality({id \in DOMAIN chunk_store :
                                           id.kind \in kinds /\ id \notin Range(unneeded_chunks)})
    IN /\ immutable_data_count >= 0
       /\ structured_data_count >= 0
       /\ appendable_data_count >= 0
       /\ immutable_data_count = counted({"Immutable"})
       /\ structured_data_count = counted({"Structured"})
       /\ appendable_data_count = counted({"PubAppendable", "PrivAppendable"})

\* C36: a mutation request gets at most one reply over its whole life. A request that
\* is refused at once is kept as a rejected pending write, so this says: no step
\* replies to a rejected pending write, a step replies at most once to a pending
\* write and then removes it, and a request that a step both answers and inserts is
\* inserted as rejected.
C36_Step ==
    LET replies(msgs, w) == {k \in DOMAIN msgs :
                                /\ msgs[k].type \in {w.mutate_type \o "Success",
                                                     w.mutate_type \o "Failure"}
                                /\ msgs[k].msg_id = w.message_id
                                /\ msgs[k].to = w.src}
    IN /\ \A w \in AllWrites(pending_writes) :
              /\ w.rejected => replies(sent', w) = {}
              /\ Cardinality(replies(sent', w)) <= 1
              /\ replies(sent', w) # {} => w \notin AllWrites(pending_writes')
       /\ \A w \in AllWrites(pending_writes') \ AllWrites(pending_writes) :
              /\ Cardinality(replies(sent', w)) <= 1
              /\ replies(sent', w) # {} => w.rejected
C36_AtMostOneReply == [][C36_Step]_vars

\* C37: a GetSuccess changes the chunk store only if the node had a Get outstanding
\* to the sending peer for the id of the data when it arrived.
C37_Step ==
    (ev'.name = "GetSuccess" /\ chunk_store' # chunk_store)
        => /\ ev'.src \in DOMAIN ongoing_gets
           /\ ongoing_gets[ev'.src].idv.id = ev'.id
C37_OnlySolicitedDataStored == [][C37_Step]_vars

\* C38: remove_expired_writes removes exactly the pending writes that are older than
\* PENDING_WRITE_TIMEOUT_SECS, keeps the younger ones in their order and returns the
\* removed ones; and after every call of the cache each list of pending_writes is
\* not empty and holds its writes newest first, with creation times that do not
\* increase along the list.
C38_Step ==
    LET old(w) == now - w.timestamp > PENDING_WRITE_TIMEOUT_SECS
        young(writes) == SelectSeq(writes, LAMBDA w : ~old(w))
    IN /\ \A id \in DOMAIN pending_writes' :
              /\ pending_writes'[id] # <<>>
              /\ \A i, j \in DOMAIN pending_writes'[id] :
                     i < j => pending_writes'[id][i].timestamp
                                  >= pending_writes'[id][j].timestamp
       /\ ev'.name = "remove_expired_writes" =>
              /\ DOMAIN pending_writes' =
                     {id \in DOMAIN pending_writes : young(pending_writes[id]) # <<>>}
              /\ \A id \in DOMAIN pending_writes' :
                     pending_writes'[id] = young(pending_writes[id])
              /\ Range(ev'.data) = {w \in AllWrites(pending_writes) : old(w)}
              /\ Len(ev'.data) = Cardinality(Range(ev'.data))
C38_ExactlyExpiredRemoved == [][C38_Step]_vars

\* C38 witness: remove_expired_writes has returned one write of an identifier and
\* kept a younger write of the same identifier and a write of another one
C38_Witness ==
    /\ ev.name = "remove_expired_writes"
    /\ Len(ev.data) = 1
    /\ ev.data[1].data.id = SdId
    /\ SdId \in DOMAIN pending_writes
    /\ ImmId \in DOMAIN pending_writes

\* C39: after every step unneeded_chunks holds only ids of immutable chunks, none of
\* them twice, and each of them is stored. An id leaves the queue only in one of two
\* ways: a NodeLost event reclaims it, the node being in the close group of its name
\* again and the chunk staying stored; or the store was full and the step deleted it
\* from the store together with everything queued before it. The ids that stay keep
\* their order, and new ones are appended.
C39_Step ==
    LET left == Range(unneeded_chunks) \ Range(unneeded_chunks')
        stay == SelectSeq(unneeded_chunks, LAMBDA id : id \notin left)
        n == Cardinality(left)
    IN /\ \A i \in DOMAIN unneeded_chunks' : unneeded_chunks'[i].kind = "Immutable"
       /\ Len(unneeded_chunks') = Cardinality(Range(unneeded_chunks'))
       /\ Range(unneeded_chunks') \subseteq DOMAIN chunk_store'
       /\ SubSeq(unneeded_chunks', 1, Len(stay)) = stay
       /\ left # {} =>
              \/ /\ ev'.name = "NodeLost"
                 /\ \A id \in left : /\ is_closest(routing_table', id.name)
                                     /\ id \in DOMAIN chunk_store'
                 /\ unneeded_chunks' = stay
              \/ /\ ev'.name # "NodeLost"
                 /\ chunk_store_full(chunk_store)
                 /\ left = Range(SubSeq(unneeded_chunks, 1, n))
                 /\ left \cap DOMAIN chunk_store' = {}
C39_UnneededQueue == [][C39_Step]_vars

\* C39 witness: with two chunks queued, a step found the store full and deleted the
\* one at the front; the other is still queued and stored
C39_Witness ==
    /\ ev.name = "Put"
    /\ ev.id = ImmId
    /\ ImmId \in DOMAIN pending_writes
    /\ routing_table = Peers \cup {3}
    /\ unneeded_chunks = <<DataId("Immutable", 7)>>
    /\ DOMAIN chunk_store = {DataId("Immutable", 7), SdId}
    /\ immutable_data_count = 0
    /\ ~chunk_store_full(chunk_store)

\* C40: a step sends a Get, and records it in ongoing_gets, only to a peer that is in
\* the close group of the requested id under the current routing table, one Get for
\* each new entry. When a scheduling pass takes a record from a peer's set in
\* data_holders, it takes one record of that peer, and either the peer is in the
\* close group of the id and is sent exactly one Get for it, recorded in
\* ongoing_gets with the record and the time, or the peer is outside it and the
\* record is dropped: the peer is sent no Get and gets no entry.
C40_Step ==
    LET in_group(p, id) == /\ is_closest(routing_table', id.name)
                           /\ p \in Range(closest_names(routing_table', id.name))
        gets(p) == {i \in DOMAIN sent' : /\ sent'[i].type = "Get"
                                         /\ sent'[i].to = Authority("ManagedNode", p)}
        new == {p \in DOMAIN ongoing_gets' :
                    p \notin DOMAIN ongoing_gets \/ ongoing_gets'[p] # ongoing_gets[p]}
        taken(p) == data_holders[p] \ (IF p \in DOMAIN data_holders'
                                       THEN data_holders'[p] ELSE {})
    IN /\ \A i \in DOMAIN sent' :
              sent'[i].type = "Get" =>
                  /\ sent'[i].to.auth = "ManagedNode"
                  /\ sent'[i].to.name \in DOMAIN ongoing_gets'
                  /\ ongoing_gets'[sent'[i].to.name].idv.id = sent'[i].id
                  /\ ongoing_gets'[sent'[i].to.name].timestamp = now
                  /\ in_group(sent'[i].to.name, sent'[i].id)
                  /\ Cardinality(gets(sent'[i].to.name)) = 1
       /\ \A p \in new :
              /\ in_group(p, ongoing_gets'[p].idv.id)
              /\ ongoing_gets'[p].timestamp = now
              /\ Cardinality(gets(p)) = 1
       /\ ev'.name \in {"CheckTimeouts", "GetFailure", "Refresh"} =>
              \A p \in DOMAIN data_holders :
                  /\ Cardinality(taken(p)) <= 1
                  /\ \A idv \in taken(p) :
                         IF in_group(p, idv.id)
                         THEN /\ p \in DOMAIN ongoing_gets'
                              /\ ongoing_gets'[p] = OngoingGet(now, idv)
                              /\ Cardinality(gets(p)) = 1
                         ELSE /\ gets(p) = {}
                              /\ p \notin DOMAIN ongoing_gets'
C40_GetsOnlyToCloseGroup == [][C40_Step]_vars

\* C40 witness: peer 3, which is not in the routing table, was recorded as holder of
\* a chunk by its vote; when the Get to peer 1 failed, the pass took the record of
\* peer 3 and dropped it without a Get
C40_Witness ==
    /\ ev.name = "GetFailure"
    /\ ret = "Ok"
    /\ routing_table = Peers
    /\ 3 \in DOMAIN data_holders
    /\ data_holders[3] = {}
    /\ ongoing_gets = EmptyMap
    /\ sent = <<>>

====
